---------------------------- MODULE Spec2Model ----------------------------
(***************************************************************************)
(* gdalcacaview: a terminal viewer for GDAL rasters.                       *)
(*                                                                         *)
(* The model follows src/gdalcacaview/gdalcacaview.c (the 2016 viewer,     *)
(* lines 953-2776): the stretch-rule matcher, the window mapper            *)
(* prepare_for_reading, the band readers, gdal_open_file/gdal_load_image   *)
(* and the event loop of main.                                             *)
(*                                                                         *)
(* C doubles are modelled by exact rationals [n, d] kept in lowest terms;  *)
(* C ints by integers, wrapped to 32 bits where a conversion can leave the *)
(* range.  GDAL and libcaca are the environment: a dataset is a record of  *)
(* what the GDAL calls made by the source return for it.                   *)
(***************************************************************************)
EXTENDS Integers, Sequences, FiniteSets, TLC

VARIABLES
    disk,            \* the dataset GDALOpen(pszFileName) finds (environment)
    stretchList,     \* main: struct stretchlist stretchList
    pCmdStretch,     \* main: stretch given by --stretch, or NULL
    gdalfile,        \* main: struct gdalFile gdalfile
    dispExtent,      \* main: struct extent dispExtent
    im,              \* global: struct image *im
    szGDALMessages,  \* global: error buffer
    g,               \* global: gamma index
    ww, wh,          \* globals: canvas width and height in cells
    quit, update, status, reload, rezoom,   \* main: loop flags
    new_status,      \* main: new_status of the current turn of the loop
    dither_algorithm,\* main: index of the dither algorithm chosen
    pc,              \* position in main's loop
    nEvents,         \* number of events handled so far
    info,            \* struct readInfo of the latest prepare_for_reading
    io,              \* what the latest open/render did to its collaborators
    build,           \* the platform the program was built for (see Builds)
    heap,            \* the int found in memory the program never wrote
    geolink          \* main: pszGeolinkFile, and the file of that name

vars == <<disk, stretchList, pCmdStretch, gdalfile, dispExtent, im,
          szGDALMessages, g, ww, wh, quit, update, status, reload, rezoom,
          new_status, dither_algorithm, pc, nEvents, info, io, build, heap,
          geolink>>

\* the locals of main that steer its loop
loopVars == <<quit, update, status, reload, rezoom, new_status,
              dither_algorithm, nEvents>>

(***************************************************************************)
(* Pointers: NULL is the empty sequence, a valid pointer <<value>>.        *)
(***************************************************************************)
NULL == <<>>
Ptr(v) == <<v>>
Deref(p) == p[1]

(***************************************************************************)
(* A local of the source that is assigned once and read many times is      *)
(* bound by With, which evaluates it once; Filled gives an array as the    *)
(* explicit table of its elements.                                         *)
(***************************************************************************)
With(value, Rest(_)) == CHOOSE result \in {Rest(v) : v \in {value}} : TRUE
Filled(array) == array @@ <<>>

(***************************************************************************)
(* The geolink file.  geolink is [pszGeolinkFile, exists, text, writing]:  *)
(* pszGeolinkFile is NULL without --geolink; text is the sequence of the   *)
(* records in the file, a record being [pid, dX, dY, dMetersPerCell];      *)
(* writing holds while another viewer has the file open for writing.       *)
(***************************************************************************)
NoGeolink ==
    [pszGeolinkFile |-> NULL, exists |-> FALSE, text |-> <<>>, writing |-> FALSE]

(***************************************************************************)
(* Program constants.                                                      *)
(***************************************************************************)
VIEWER_COMP_LT == 0
VIEWER_COMP_GT == 1
VIEWER_COMP_EQ == 2
VIEWER_MODE_COLORTABLE == 1
VIEWER_MODE_GREYSCALE == 2
VIEWER_MODE_RGB == 3
VIEWER_MODE_PSEUDOCOLOR == 4
VIEWER_STRETCHMODE_NONE == 1
VIEWER_STRETCHMODE_LINEAR == 2
VIEWER_STRETCHMODE_STDDEV == 3
VIEWER_STRETCHMODE_HIST == 4
PIX_PER_CELL == 30
IMG_DEPTH == 3
GAMMA_MAX == 100
STATUS_DITHERING == 1

(***************************************************************************)
(* Exact rationals standing for C doubles.                                 *)
(***************************************************************************)
RECURSIVE GCD(_, _)
GCD(a, b) == IF b = 0 THEN a ELSE GCD(b, a % b)

AbsInt(a) == IF a < 0 THEN -a ELSE a

Frac(n, d) ==
    LET k == GCD(AbsInt(n), AbsInt(d))
        s == IF d < 0 THEN -1 ELSE 1
    IN  [n |-> s * (n \div k), d |-> s * (d \div k)]

R(i) == [n |-> i, d |-> 1]
\* the greatest common divisor of two denominators (1 when both are 0):
\* sums and comparisons are formed over the least common denominator
CommonDen(a, b) == IF a.d = 0 /\ b.d = 0 THEN 1 ELSE GCD(a.d, b.d)
RAdd(a, b) ==
    Frac(a.n * (b.d \div CommonDen(a, b)) + b.n * (a.d \div CommonDen(a, b)),
         (a.d \div CommonDen(a, b)) * b.d)
RSub(a, b) ==
    Frac(a.n * (b.d \div CommonDen(a, b)) - b.n * (a.d \div CommonDen(a, b)),
         (a.d \div CommonDen(a, b)) * b.d)
RMul(a, b) == Frac(a.n * b.n, a.d * b.d)
RDiv(a, b) == Frac(a.n * b.d, a.d * b.n)
RNeg(a) == [n |-> -a.n, d |-> a.d]
RLt(a, b) == a.n * (b.d \div CommonDen(a, b)) < b.n * (a.d \div CommonDen(a, b))
RLe(a, b) == a.n * (b.d \div CommonDen(a, b)) <= b.n * (a.d \div CommonDen(a, b))
IsZero(a) == a.n = 0

\* (int)x : conversion of a double to int truncates toward zero
TruncZ(a) == IF a.n >= 0 THEN a.n \div a.d ELSE -((-a.n) \div a.d)
\* round(x) : nearest integer, halves away from zero
RoundHalfAway(a) ==
    IF a.n >= 0 THEN (2 * a.n + a.d) \div (2 * a.d)
    ELSE -((2 * (-a.n) + a.d) \div (2 * a.d))

(***************************************************************************)
(* 32-bit int arithmetic.  It is only needed around the conversion of a    *)
(* NaN or an infinity to int (undefined behaviour, see ConvertNonFinite).  *)
(***************************************************************************)
INT_MAX == 2147483647
INT_MIN == -INT_MAX - 1

W32Add(a, b) ==
    IF b >= 0
    THEN IF a <= INT_MAX - b THEN a + b
         ELSE ((a - INT_MAX) + (b - INT_MAX)) - 2
    ELSE IF a >= INT_MIN - b THEN a + b
         ELSE (a - INT_MIN) + (b - INT_MIN)
W32Neg(a) == IF a = INT_MIN THEN INT_MIN ELSE -a
W32Sub(a, b) == W32Add(a, W32Neg(b))
\* products of the model stay small unless one factor is an extreme value
W32Mul(a, b) ==
    IF a = INT_MIN THEN (IF b % 2 = 0 THEN 0 ELSE INT_MIN)
    ELSE IF a = INT_MAX THEN W32Sub(IF b % 2 = 0 THEN 0 ELSE INT_MIN, b)
    ELSE a * b


(***************************************************************************)
(* The raster-access layer (GDAL), as the calls of the source see it.      *)
(* A dataset is                                                            *)
(*   [openable, xsize, ysize, gt, overviews, bands]                        *)
(* gt is NULL (GDALGetGeoTransform fails) or points to six coefficients;   *)
(* overviews lists the size of each overview level; a band is              *)
(*   [layerType, min, max, mean, stddev, rat, vals]                        *)
(* with the metadata items NULL when absent, rat NULL or a pointer to the  *)
(* attribute table [rows, cols], a column being [usage, vals].             *)
(***************************************************************************)
\* A dataset handle is NULL or points to the dataset; the calls below
\* return 0 or NULL for a NULL handle, as GDAL's VALIDATE_POINTER1 does.
GDALGetRasterCount(ds) == IF ds = NULL THEN 0 ELSE Len(Deref(ds).bands)
GDALGetRasterXSize(ds) == IF ds = NULL THEN 0 ELSE Deref(ds).xsize
GDALGetRasterYSize(ds) == IF ds = NULL THEN 0 ELSE Deref(ds).ysize
\* GDALGetGeoTransform: NULL stands for a return other than CE_None
GDALGetGeoTransform(ds) == IF ds = NULL THEN NULL ELSE Deref(ds).gt
\* a band handle points to [band, xsize, ysize, overviews]; NULL for a band
\* number outside 1..count
GDALGetRasterBand(ds, b) ==
    IF ds # NULL /\ b >= 1 /\ b <= Len(Deref(ds).bands)
    THEN Ptr([band |-> Deref(ds).bands[b], xsize |-> Deref(ds).xsize,
              ysize |-> Deref(ds).ysize, overviews |-> Deref(ds).overviews])
    ELSE NULL
GDALGetOverviewCount(bandh) ==
    IF bandh = NULL THEN 0 ELSE Len(Deref(bandh).overviews)
\* overview i (from 0) of a band: the same band at the overview's size
GDALGetOverview(bandh, i) ==
    IF bandh # NULL /\ i >= 0 /\ i < Len(Deref(bandh).overviews)
    THEN Ptr([band |-> Deref(bandh).band,
              xsize |-> Deref(bandh).overviews[i + 1].xsize,
              ysize |-> Deref(bandh).overviews[i + 1].ysize,
              overviews |-> <<>>])
    ELSE NULL
\* GDALGetRasterBandXSize/YSize
GDALGetRasterBandXSize(bandh) == IF bandh = NULL THEN 0 ELSE Deref(bandh).xsize
GDALGetRasterBandYSize(bandh) == IF bandh = NULL THEN 0 ELSE Deref(bandh).ysize
GDALGetDefaultRAT(bandh) == IF bandh = NULL THEN NULL ELSE Deref(bandh).band.rat

\* GDALInvGeoTransform: NULL when the determinant vanishes
GDALInvGeoTransform(gt) ==
    LET det == RSub(RMul(gt[2], gt[6]), RMul(gt[3], gt[5]))
    IN  IF IsZero(det) THEN NULL
        ELSE Ptr(<< RDiv(RSub(RMul(gt[3], gt[4]), RMul(gt[1], gt[6])), det),
                    RDiv(gt[6], det),
                    RDiv(RNeg(gt[3]), det),
                    RDiv(RSub(RMul(gt[1], gt[5]), RMul(gt[2], gt[4])), det),
                    RDiv(RNeg(gt[5]), det),
                    RDiv(gt[2], det) >>)

\* GDALApplyGeoTransform: <<x, y>>
GDALApplyGeoTransform(gt, x, y) ==
    << RAdd(gt[1], RAdd(RMul(x, gt[2]), RMul(y, gt[3]))),
       RAdd(gt[4], RAdd(RMul(x, gt[5]), RMul(y, gt[6]))) >>

(***************************************************************************)
(* prepare_for_reading: the window mapper.                                 *)
(***************************************************************************)
\* What the build does where C leaves the behaviour undefined:
\*   "x86": a NaN or an infinity converts to INT_MIN (cvttsd2si) and an
\*          integer division by zero traps;
\*   "arm": a NaN converts to 0, an infinity to the nearest int (fcvtzs),
\*          and an integer division by zero yields 0 (sdiv).
Builds == {"x86", "arm"}

ConvertNonFinite(num, bld) ==
    IF bld = "x86" THEN INT_MIN
    ELSE IF num = 0 THEN 0
    ELSE IF num > 0 THEN INT_MAX ELSE INT_MIN

\* (int)((extra / (double)origIn) * dataSize)
RescaleExtra(extra, origIn, dataSize, bld) ==
    IF origIn = 0 THEN ConvertNonFinite(extra, bld)
    ELSE TruncZ(Frac(extra * dataSize, origIn))

NoInfo == [nXOff |-> 0, nYOff |-> 0, nXSize |-> 0, nYSize |-> 0,
           nDataOffset |-> 0, nBufXSize |-> 0, nBufYSize |-> 0,
           origWidthIn |-> 0, origHeightIn |-> 0,
           x1 |-> R(0), y1 |-> R(0), x2 |-> R(0), y2 |-> R(0),
           width |-> 0, height |-> 0, dataWidth |-> 0, dataHeight |-> 0]

\* clipping of the left/top coordinate: <<extra, clipped>>
ClipLow(v) == IF RLt(v, R(0)) THEN <<AbsInt(TruncZ(v)), R(0)>> ELSE <<0, v>>
\* lines 2356-2360 without x2 = width - 1: the coordinate is left where it was
ClipHigh_NoAssign(v, size) ==
    IF RLe(R(size), v) THEN <<TruncZ(RSub(v, R(size + 1))), v>>
    ELSE <<0, v>>

\* clipping of the right/bottom coordinate against the level size
ClipHigh(v, size) ==
    IF RLe(R(size), v) THEN <<TruncZ(RSub(v, R(size + 1))), R(size - 1)>>
    ELSE <<0, v>>

\* [ok, crashed, msg, info]; info also keeps the unclipped corners and
\* spans, which the function holds in locals.  cw, ch are the globals ww, wh.
\* An int division by zero (ovh NULL) traps or yields 0 (see Builds).
prepare_for_reading(dataWidth, dataHeight, ds, ovh, extent, cw, ch, bld) ==
    LET width == GDALGetRasterBandXSize(ovh)
        height == GDALGetRasterBandYSize(ovh)
        nFactor == IF width = 0 THEN 0 ELSE GDALGetRasterXSize(ds) \div width
        halfW == RMul(Frac(cw, 2), extent.dMetersPerCell)
        halfH == RMul(Frac(ch, 2), extent.dMetersPerCell)
        dTLX == RSub(extent.dCentreX, halfW)
        dBRX == RAdd(extent.dCentreX, halfW)
        dTLY == RAdd(extent.dCentreY, halfH)
        dBRY == RSub(extent.dCentreY, halfH)
    IN  IF width = 0 /\ bld = "x86"
        THEN [ok |-> FALSE, crashed |-> TRUE, msg |-> "", info |-> NoInfo]
        ELSE IF GDALGetGeoTransform(ds) = NULL
        THEN [ok |-> FALSE, crashed |-> FALSE,
              msg |-> "Image has no geotransform", info |-> NoInfo]
        ELSE
        LET gt0 == Deref(GDALGetGeoTransform(ds))
            adfTransform == [gt0 EXCEPT ![2] = RMul(@, R(nFactor)),
                                        ![6] = RMul(@, R(nFactor))]
            inv == GDALInvGeoTransform(adfTransform)
        IN  IF inv = NULL
            THEN [ok |-> FALSE, crashed |-> FALSE,
                  msg |-> "Unable to invert transform", info |-> NoInfo]
            ELSE
            LET p1 == GDALApplyGeoTransform(Deref(inv), dTLX, dTLY)
                p2 == GDALApplyGeoTransform(Deref(inv), dBRX, dBRY)
                origWidthIn == RoundHalfAway(RSub(p2[1], p1[1]))
                origHeightIn == RoundHalfAway(RSub(p2[2], p1[2]))
                cx1 == ClipLow(p1[1])
                cx2 == ClipHigh(p2[1], width)
                cy1 == ClipLow(p1[2])
                cy2 == ClipHigh(p2[2], height)
                widthIn == RoundHalfAway(RSub(cx2[2], cx1[2]))
                heightIn == RoundHalfAway(RSub(cy2[2], cy1[2]))
                leftExtra == RescaleExtra(cx1[1], origWidthIn, dataWidth, bld)
                rightExtra == RescaleExtra(cx2[1], origWidthIn, dataWidth, bld)
                topExtra == RescaleExtra(cy1[1], origHeightIn, dataHeight, bld)
                bottomExtra == RescaleExtra(cy2[1], origHeightIn, dataHeight, bld)
            IN  [ok |-> TRUE, crashed |-> FALSE, msg |-> "",
                 info |-> [nXOff |-> TruncZ(cx1[2]),
                           nYOff |-> TruncZ(cy1[2]),
                           nXSize |-> widthIn,
                           nYSize |-> heightIn,
                           nDataOffset |-> W32Add(leftExtra, W32Mul(topExtra, dataWidth)),
                           nBufXSize |-> W32Sub(W32Sub(dataWidth, leftExtra), rightExtra),
                           nBufYSize |-> W32Sub(W32Sub(dataHeight, topExtra), bottomExtra),
                           origWidthIn |-> origWidthIn,
                           origHeightIn |-> origHeightIn,
                           x1 |-> p1[1], y1 |-> p1[2],
                           x2 |-> p2[1], y2 |-> p2[2],
                           width |-> width, height |-> height,
                           dataWidth |-> dataWidth, dataHeight |-> dataHeight]]

(***************************************************************************)
(* do_stretch.  A sample is a rational or NaN; the float buffer pBuffer is *)
(* a function from 0..size-1 to samples.                                   *)
(***************************************************************************)
NaN == [n |-> 0, d |-> 0]
IsNaN(v) == v.d = 0 /\ v.n = 0
PosInf == [n |-> 1, d |-> 0]
NegInf == [n |-> -1, d |-> 0]

\* C integer division truncates toward zero
CDiv(a, b) ==
    IF (a >= 0) = (b > 0) THEN AbsInt(a) \div AbsInt(b)
    ELSE -(AbsInt(a) \div AbsInt(b))

\* the tail shared by the three stretches: dVal clamped to 0..255
Clamp255(dVal) ==
    IF RLt(dVal, R(0)) THEN R(0)
    ELSE IF RLt(R(255), dVal) THEN R(255)
    ELSE dVal

\* a quotient num/den of doubles, then clamped: an infinity clamps to an
\* end of the range, 0/0 is a NaN and fails both comparisons
ClampQuotient(num, den) ==
    IF IsZero(den)
    THEN IF IsZero(num) THEN NaN
         ELSE IF RLt(R(0), num) THEN R(255) ELSE R(0)
    ELSE Clamp255(RDiv(num, den))

\* lines 2170-2186
StretchStdDev(v, dMin, dMax, mean, stddev, k) ==
    IF IsNaN(v) THEN NaN
    ELSE IF RLe(v, dMin) \/ IsZero(v) THEN R(0)
    ELSE IF RLe(dMax, v) THEN R(255)
    ELSE ClampQuotient(RMul(RAdd(RSub(v, mean), RMul(stddev, k)), R(255)),
                       RMul(RMul(stddev, R(2)), k))

\* the step taken over 256 levels: dStep = (hi - lo) / 256.0
StretchBetween_Step256(v, lo, hi) ==
    IF IsNaN(v) THEN NaN
    ELSE IF RLe(v, lo) THEN R(0)
    ELSE IF RLe(hi, v) THEN R(255)
    ELSE Clamp255(RMul(RSub(v, lo), RDiv(RSub(hi, lo), R(256))))

\* lines 2247-2264 and 2269-2288: the rescale between two bounds
StretchBetween(v, lo, hi) ==
    IF IsNaN(v) THEN NaN
    ELSE IF RLe(v, lo) THEN R(0)
    ELSE IF RLe(hi, v) THEN R(255)
    ELSE Clamp255(RMul(RSub(v, lo), RDiv(RSub(hi, lo), R(255))))

\* the attribute-table column of a usage that the scanning loops end up
\* with (the last one), or NULL
RECURSIVE LastColumn(_, _, _)
LastColumn(cols, usage, n) ==
    IF n = 0 THEN NULL
    ELSE IF cols[n].usage = usage THEN Ptr(cols[n].vals)
    ELSE LastColumn(cols, usage, n - 1)

RECURSIVE SumHisto(_, _)
SumHisto(h, n) == IF n = 0 THEN 0 ELSE h[n] + SumHisto(h, n - 1)

\* lines 2224-2232: scan from the bottom; bin n is h[n + 1]
RECURSIVE ScanLower(_, _, _, _, _, _, _)
ScanLower(h, nbins, n, dSumVals, dBandLower, dMin, dMax) ==
    IF n >= nbins THEN dMin
    ELSE LET s == dSumVals + h[n + 1]
         IN  IF RLt(dBandLower, R(s))
             THEN RAdd(dMin, RMul(RSub(dMax, dMin), R(CDiv(n, nbins))))
             ELSE ScanLower(h, nbins, n + 1, s, dBandLower, dMin, dMax)

\* lines 2235-2243: scan from the top, starting at pHisto[nbins], one past
\* the end of the array: that read yields whatever the heap holds there
RECURSIVE ScanUpper(_, _, _, _, _, _, _)
ScanUpper(h, nbins, n, dSumVals, dBandUpper, dMax, beyond) ==
    IF n < 0 THEN dMax
    ELSE LET s == dSumVals + (IF n = nbins THEN beyond ELSE h[n + 1])
         IN  IF RLt(dBandUpper, R(s))
             THEN RAdd(dMax, R(CDiv(nbins - n - 1, nbins)))
             ELSE ScanUpper(h, nbins, n - 1, s, dBandUpper, dMax, beyond)

\* lines 2224-2232: the indices n at which the scan from the bottom reads
\* pHisto[n]
RECURSIVE ScanLowerReads(_, _, _, _, _)
ScanLowerReads(h, nbins, n, dSumVals, dBandLower) ==
    IF n >= nbins THEN {}
    ELSE LET s == dSumVals + h[n + 1]
         IN  IF RLt(dBandLower, R(s)) THEN {n}
             ELSE {n} \cup ScanLowerReads(h, nbins, n + 1, s, dBandLower)

\* lines 2235-2243: the indices n at which the scan from the top reads
\* pHisto[n]
RECURSIVE ScanUpperReads(_, _, _, _, _, _)
ScanUpperReads(h, nbins, n, dSumVals, dBandUpper, beyond) ==
    IF n < 0 THEN {}
    ELSE LET s == dSumVals + (IF n = nbins THEN beyond ELSE h[n + 1])
         IN  IF RLt(dBandUpper, R(s)) THEN {n}
             ELSE {n} \cup ScanUpperReads(h, nbins, n - 1, s, dBandUpper, beyond)

\* the bounds of the histogram stretch, <<dStretchMin, dStretchMax>>
HistBounds(h, nbins, param, dMin, dMax, beyond) ==
    LET dSumHisto == SumHisto(h, nbins)
        dBandLower == RMul(R(dSumHisto), param[1])
        dBandUpper == RMul(R(dSumHisto), param[2])
    IN  << ScanLower(h, nbins, 0, 0, dBandLower, dMin, dMax),
           ScanUpper(h, nbins, nbins, 0, dBandUpper, dMax, beyond) >>

StatsMissing == "Statistics not available. Run gdalcalcstats first"
HistMissing == "Histogram not available. Run gdalcalcstats first"

\* the buffer with f applied to every element; f is evaluated once for
\* each distinct sample
MapBuffer(buf, f(_)) ==
    With(Filled([v \in {buf[i] : i \in DOMAIN buf} |-> f(v)]),
         LAMBDA tab : Filled([i \in DOMAIN buf |-> tab[buf[i]]]))

\* GDALGetMetadataItem for the statistics items: NULL for a NULL band
BandItem(bandh, item) ==
    IF bandh = NULL THEN NULL
    ELSE CASE item = "STATISTICS_MINIMUM" -> Deref(bandh).band.min
           [] item = "STATISTICS_MAXIMUM" -> Deref(bandh).band.max
           [] item = "STATISTICS_MEAN" -> Deref(bandh).band.mean
           [] item = "STATISTICS_STDDEV" -> Deref(bandh).band.stddev

\* do_stretch: [ok, msg, buf].  beyond is the int read at pHisto[nbins]
do_stretch(pBuffer, bandh, stretch, beyond) ==
    IF BandItem(bandh, "STATISTICS_MINIMUM") = NULL
       \/ BandItem(bandh, "STATISTICS_MAXIMUM") = NULL
    THEN [ok |-> FALSE, msg |-> StatsMissing, buf |-> pBuffer]
    ELSE
    LET band == Deref(bandh).band
        dMin == Deref(band.min)
        dMax == Deref(band.max)
    IN  IF stretch.stretchmode = VIEWER_STRETCHMODE_STDDEV
        THEN IF band.stddev = NULL \/ band.mean = NULL
             THEN [ok |-> FALSE, msg |-> StatsMissing, buf |-> pBuffer]
             ELSE [ok |-> TRUE, msg |-> "",
                   buf |-> MapBuffer(pBuffer,
                              LAMBDA v : StretchStdDev(v, dMin, dMax, Deref(band.mean),
                                                       Deref(band.stddev),
                                                       stretch.stretchparam[1]))]
        ELSE IF stretch.stretchmode = VIEWER_STRETCHMODE_HIST
        THEN IF band.rat = NULL
             THEN [ok |-> FALSE, msg |-> HistMissing, buf |-> pBuffer]
             ELSE
             LET rat == Deref(band.rat)
                 pHisto == LastColumn(rat.cols, "PixelCount", Len(rat.cols))
             IN  IF pHisto = NULL
                 THEN [ok |-> FALSE, msg |-> HistMissing, buf |-> pBuffer]
                 ELSE With(HistBounds(Deref(pHisto), rat.rows, stretch.stretchparam,
                                      dMin, dMax, beyond),
                           LAMBDA b :
                               [ok |-> TRUE, msg |-> "",
                                buf |-> MapBuffer(pBuffer,
                                           LAMBDA v : StretchBetween(v, b[1], b[2]))])
        ELSE IF stretch.stretchmode = VIEWER_STRETCHMODE_LINEAR
        THEN [ok |-> TRUE, msg |-> "",
              buf |-> MapBuffer(pBuffer, LAMBDA v : StretchBetween(v, dMin, dMax))]
        ELSE IF stretch.stretchmode # VIEWER_STRETCHMODE_NONE
        THEN [ok |-> FALSE, msg |-> "stretch not currently supported", buf |-> pBuffer]
        ELSE [ok |-> TRUE, msg |-> "", buf |-> pBuffer]

(***************************************************************************)
(* GDALRasterIO as the readers call it: a nearest-neighbour read of the    *)
(* window info.nXOff.. of one band at one level into bufx x bufy samples   *)
(* starting at &pBuffer[nDataOffset], with lines w samples apart.          *)
(***************************************************************************)
\* the value of pixel (x, y) of the level a band handle stands for
BandPixel(ovh, x, y) ==
    Deref(ovh).band.vals[((x + y * Deref(ovh).xsize) % Len(Deref(ovh).band.vals)) + 1]

\* GDAL skips a window or buffer of no size and reports no error
ReadSkipped(rinfo) ==
    \/ rinfo.nXSize < 1 \/ rinfo.nYSize < 1
    \/ rinfo.nBufXSize < 1 \/ rinfo.nBufYSize < 1

\* "Access window out of range in RasterIO()"
ReadOutOfRange(rinfo, ovh) ==
    \/ rinfo.nXOff < 0 \/ rinfo.nXOff + rinfo.nXSize > Deref(ovh).xsize
    \/ rinfo.nYOff < 0 \/ rinfo.nYOff + rinfo.nYSize > Deref(ovh).ysize

\* sizes or an offset so far from the buffer that every line lands outside
WildTarget(rinfo, w, h) ==
    \/ rinfo.nDataOffset < 0 \/ rinfo.nDataOffset > w * h
    \/ rinfo.nBufXSize > 4 * w \/ rinfo.nBufYSize > 4 * h

\* the last sample index the read writes
LastWritten(rinfo, w) ==
    rinfo.nDataOffset + (rinfo.nBufYSize - 1) * w + rinfo.nBufXSize - 1

\* the line and column of the read that ends up at buffer index p (lines
\* are written in order, so the highest line wins), or <<>> when none does
WriterOf(rinfo, w, p) ==
    LET q == p - rinfo.nDataOffset
        j == IF q \div w > rinfo.nBufYSize - 1 THEN rinfo.nBufYSize - 1 ELSE q \div w
        i == q - j * w
    IN  IF q >= 0 /\ i < rinfo.nBufXSize THEN <<i, j>> ELSE <<>>

\* [status, overflow, buf]: status is "read", "skipped" or "failed"
\* (CE_Failure: a NULL band, a window out of range, or an I/O error when
\* ~readOk); overflow tells that samples were written outside pBuffer
GDALRasterIO(ovh, rinfo, pBuffer, w, h, readOk) ==
    IF ovh = NULL
    THEN [status |-> "failed", overflow |-> FALSE, buf |-> pBuffer]
    ELSE IF ReadSkipped(rinfo)
    THEN [status |-> "skipped", overflow |-> FALSE, buf |-> pBuffer]
    ELSE IF ReadOutOfRange(rinfo, ovh) \/ ~readOk
    THEN [status |-> "failed", overflow |-> FALSE, buf |-> pBuffer]
    ELSE IF WildTarget(rinfo, w, h)
    THEN [status |-> "read", overflow |-> TRUE, buf |-> pBuffer]
    ELSE
    [status |-> "read",
     overflow |-> LastWritten(rinfo, w) >= w * h,
     buf |-> Filled([p \in DOMAIN pBuffer |->
                With(WriterOf(rinfo, w, p),
                     LAMBDA wr :
                        IF wr = <<>> THEN pBuffer[p]
                        ELSE R(BandPixel(ovh,
                                 rinfo.nXOff + ((2 * wr[1] + 1) * rinfo.nXSize)
                                                 \div (2 * rinfo.nBufXSize),
                                 rinfo.nYOff + ((2 * wr[2] + 1) * rinfo.nYSize)
                                                 \div (2 * rinfo.nBufYSize))))])]

\* the byte an int leaves in a char of the pixel buffer: its low eight bits
ByteOfInt(i) == i % 256
\* the byte a float leaves there: the low eight bits of the truncated value;
\* a NaN gives 0, and a negative value gives 0 where char is unsigned
ByteOfSample(v, bld) ==
    IF IsNaN(v) THEN 0
    ELSE IF bld = "arm" /\ v.n < 0 THEN 0
    ELSE ByteOfInt(TruncZ(v))

\* CPLCalloc: n zeroed samples
ZeroSamples(n) == Filled([i \in 0..(n - 1) |-> R(0)])

(***************************************************************************)
(* The readers.  Each returns                                              *)
(*   [ret, crashed, msg, im, info, reads, overflow]                        *)
(* ret is 0 or -1; im the image filled in when ret = 0; reads the status   *)
(* of each GDALRasterIO call made; overflow whether a read wrote outside   *)
(* the sample buffer.  crashed tells that the process died in the call.    *)
(* An image is [w, h, pixels, dither]: pixels maps 0..IMG_DEPTH*w*h-1 to   *)
(* bytes, dither is the libcaca dither [algorithm, gamma].                 *)
(* The environment's part in one call is its fault:                        *)
(*   "read"   GDALRasterIO meets an I/O error                              *)
(*   "dither" caca_create_dither returns NULL                              *)
(*   "wild"   a write outside the sample buffer kills the process          *)
(***************************************************************************)
Faults == {"none", "read", "dither", "wild"}

NoImage == [w |-> 0, h |-> 0, pixels |-> <<>>, dither |-> NULL]

\* a reader that returns -1 without having written a message
ReaderFailed_Silent(msg, rinfo, reads, overflow) ==
    [ret |-> -1, crashed |-> FALSE, msg |-> "", im |-> NoImage,
     info |-> rinfo, reads |-> reads, overflow |-> overflow]

ReaderFailed(msg, rinfo, reads, overflow) ==
    [ret |-> -1, crashed |-> FALSE, msg |-> msg, im |-> NoImage,
     info |-> rinfo, reads |-> reads, overflow |-> overflow]

ReaderCrashed(rinfo, reads, overflow) ==
    [ret |-> -1, crashed |-> TRUE, msg |-> "", im |-> NoImage,
     info |-> rinfo, reads |-> reads, overflow |-> overflow]

\* caca_create_dither and the tail of both readers
WithDither(w, h, pixels, rinfo, reads, overflow, fault) ==
    IF fault = "dither"
    THEN ReaderFailed("Unable to create dither", rinfo, reads, overflow)
    ELSE [ret |-> 0, crashed |-> FALSE, msg |-> "",
          im |-> [w |-> w, h |-> h, pixels |-> pixels,
                  dither |-> Ptr([algorithm |-> 0, gamma |-> 0])],
          info |-> rinfo, reads |-> reads, overflow |-> overflow]

\* lines 2541-2560: the colour columns in table order.  A Blue column
\* allocates pBlue but reads its values into pGreen (a write through NULL
\* when no Green column came first); pBlue stays as malloc returned it,
\* which the empty table stands for: every entry of it is heap content
RECURSIVE ReadColourColumns(_, _, _)
ReadColourColumns(cols, count, acc) ==
    IF count > Len(cols) \/ acc.crashed THEN acc
    ELSE LET eUsage == cols[count].usage
             next ==
                IF eUsage = "Red"
                THEN [acc EXCEPT !.pRed = Ptr(cols[count].vals)]
                ELSE IF eUsage = "Green"
                THEN [acc EXCEPT !.pGreen = Ptr(cols[count].vals)]
                ELSE IF eUsage = "Blue"
                THEN IF acc.pGreen = NULL /\ Len(cols[count].vals) > 0
                     THEN [acc EXCEPT !.crashed = TRUE]
                     ELSE [acc EXCEPT !.pBlue = Ptr(<<>>),
                                      !.pGreen = Ptr(cols[count].vals)]
                ELSE acc
         IN  ReadColourColumns(cols, count + 1, next)

\* (int)pBuffer[incount]
IndexOfSample(v, bld) == IF IsNaN(v) THEN ConvertNonFinite(0, bld) ELSE TruncZ(v)

\* p[idx]: an index outside the values read into the table reads what the
\* heap holds
ColourEntry(p, idx, garbage) ==
    IF idx >= 0 /\ idx < Len(Deref(p)) THEN Deref(p)[idx + 1]
    ELSE garbage

\* lines 2528-2609: the pixels for the display mode, then the dither
SinglebandPixels(bandh, stretch, rinfo, rd, st, w, h, bld, garbage, fault) ==
    IF rd.overflow /\ fault = "wild" THEN ReaderCrashed(rinfo, <<rd.status>>, TRUE)
    ELSE IF ~st.ok THEN ReaderFailed(st.msg, rinfo, <<rd.status>>, rd.overflow)
    ELSE IF stretch.mode = VIEWER_MODE_COLORTABLE
    THEN IF GDALGetDefaultRAT(bandh) = NULL
         THEN ReaderFailed("Unable to Raster Attribute Table",
                           rinfo, <<rd.status>>, rd.overflow)
         ELSE
         With(ReadColourColumns(Deref(GDALGetDefaultRAT(bandh)).cols, 1,
                                [pRed |-> NULL, pGreen |-> NULL, pBlue |-> NULL,
                                 crashed |-> FALSE]),
              LAMBDA c :
                IF c.crashed THEN ReaderCrashed(rinfo, <<rd.status>>, rd.overflow)
                ELSE IF c.pRed = NULL \/ c.pGreen = NULL \/ c.pBlue = NULL
                THEN ReaderFailed("Unable to find Red, Green and Blue columns",
                                  rinfo, <<rd.status>>, rd.overflow)
                ELSE
                With(Filled([v \in {st.buf[i] : i \in DOMAIN st.buf} |->
                        With(IndexOfSample(v, bld),
                             LAMBDA idx :
                                << ByteOfInt(ColourEntry(c.pRed, idx, garbage)),
                                   ByteOfInt(ColourEntry(c.pGreen, idx, garbage)),
                                   ByteOfInt(ColourEntry(c.pBlue, idx, garbage)) >>)]),
                     LAMBDA tab :
                        WithDither(w, h,
                            Filled([k \in 0..(IMG_DEPTH * w * h - 1) |->
                                tab[st.buf[k \div IMG_DEPTH]][(k % IMG_DEPTH) + 1]]),
                            rinfo, <<rd.status>>, rd.overflow, fault)))
    ELSE IF stretch.mode = VIEWER_MODE_GREYSCALE
    THEN With(Filled([i \in DOMAIN st.buf |-> ByteOfSample(st.buf[i], bld)]),
              LAMBDA grey :
                WithDither(w, h,
                    Filled([k \in 0..(IMG_DEPTH * w * h - 1) |-> grey[k \div IMG_DEPTH]]),
                    rinfo, <<rd.status>>, rd.overflow, fault))
    ELSE ReaderFailed("Unsupported stretch", rinfo, <<rd.status>>, rd.overflow)

\* lines 2517-2526: the read and the stretch
SinglebandRead(bandh, ovh, stretch, rinfo, w, h, bld, garbage, fault) ==
    With(GDALRasterIO(ovh, rinfo, ZeroSamples(w * h), w, h, fault # "read"),
         LAMBDA rd :
            With(do_stretch(rd.buf, bandh, stretch, garbage),
                 LAMBDA st :
                    SinglebandPixels(bandh, stretch, rinfo, rd, st, w, h,
                                     bld, garbage, fault)))

\* the band handle the readers read: bandh itself or one of its overviews
LevelOf(bandh, overviewIndex) ==
    IF overviewIndex = 0 THEN bandh ELSE GDALGetOverview(bandh, overviewIndex - 1)

gdal_read_singleband(ds, overviewIndex, stretch, extent, cw, ch, bld, garbage, fault) ==
    With(GDALGetRasterBand(ds, stretch.bands[1]),
         LAMBDA bandh :
            With(LevelOf(bandh, overviewIndex),
                 LAMBDA ovh :
                    With(prepare_for_reading(PIX_PER_CELL * cw, PIX_PER_CELL * ch,
                                             ds, ovh, extent, cw, ch, bld),
                         LAMBDA prep :
                            IF prep.crashed THEN ReaderCrashed(NoInfo, <<>>, FALSE)
                            ELSE IF ~prep.ok
                            THEN ReaderFailed(prep.msg, NoInfo, <<>>, FALSE)
                            ELSE SinglebandRead(bandh, ovh, stretch, prep.info,
                                                PIX_PER_CELL * cw, PIX_PER_CELL * ch,
                                                bld, garbage, fault))))

\* one turn of the loop over the three bands (lines 2426-2462): acc is
\* [ok, msg, buf, planes, reads, overflow], planes the bytes each band
\* left for its channel
BandTurn(ds, overviewIndex, stretch, rinfo, w, h, bld, garbage, fault, acc, count) ==
    IF ~acc.ok THEN acc
    ELSE
    With(GDALGetRasterBand(ds, stretch.bands[count + 1]),
         LAMBDA bandh :
            With(GDALRasterIO(LevelOf(bandh, overviewIndex), rinfo, acc.buf, w, h,
                              fault # "read"),
                 LAMBDA rd :
                    With(do_stretch(rd.buf, bandh, stretch, garbage),
                         LAMBDA st :
                            [ok |-> st.ok, msg |-> st.msg, buf |-> st.buf,
                             planes |-> Append(acc.planes,
                                 Filled([i \in DOMAIN st.buf |->
                                            ByteOfSample(st.buf[i], bld)])),
                             reads |-> Append(acc.reads, rd.status),
                             overflow |-> acc.overflow \/ rd.overflow])))

\* lines 2422-2478: the three turns, then the dither
MultibandRead(ds, overviewIndex, stretch, rinfo, w, h, bld, garbage, fault) ==
    With(BandTurn(ds, overviewIndex, stretch, rinfo, w, h, bld, garbage, fault,
                  [ok |-> TRUE, msg |-> "", buf |-> ZeroSamples(w * h),
                   planes |-> <<>>, reads |-> <<>>, overflow |-> FALSE], 0),
      LAMBDA a1 :
        With(BandTurn(ds, overviewIndex, stretch, rinfo, w, h, bld, garbage, fault, a1, 1),
          LAMBDA a2 :
            With(BandTurn(ds, overviewIndex, stretch, rinfo, w, h, bld, garbage, fault,
                          a2, 2),
              LAMBDA a3 :
                IF a3.overflow /\ fault = "wild" THEN ReaderCrashed(rinfo, a3.reads, TRUE)
                ELSE IF ~a3.ok THEN ReaderFailed(a3.msg, rinfo, a3.reads, a3.overflow)
                ELSE WithDither(w, h,
                        Filled([k \in 0..(IMG_DEPTH * w * h - 1) |->
                                  a3.planes[(k % IMG_DEPTH) + 1][k \div IMG_DEPTH]]),
                        rinfo, a3.reads, a3.overflow, fault))))

gdal_read_multiband(ds, overviewIndex, stretch, extent, cw, ch, bld, garbage, fault) ==
    With(prepare_for_reading(PIX_PER_CELL * cw, PIX_PER_CELL * ch, ds,
                             LevelOf(GDALGetRasterBand(ds, stretch.bands[1]),
                                     overviewIndex),
                             extent, cw, ch, bld),
         LAMBDA prep :
            IF prep.crashed THEN ReaderCrashed(NoInfo, <<>>, FALSE)
            ELSE IF ~prep.ok THEN ReaderFailed(prep.msg, NoInfo, <<>>, FALSE)
            ELSE MultibandRead(ds, overviewIndex, stretch, prep.info,
                               PIX_PER_CELL * cw, PIX_PER_CELL * ch,
                               bld, garbage, fault))

(***************************************************************************)
(* gdal_get_best_overview: 0 for full resolution, else overview index + 1. *)
(***************************************************************************)
\* dMetersPerCell / (adfTransform[1] * nFactor); a zero divisor gives an
\* infinity or a NaN
PixelsPerCell(mpc, gt1, nFactor) ==
    LET den == RMul(gt1, R(nFactor))
    IN  IF IsZero(den)
        THEN IF IsZero(mpc) THEN NaN ELSE IF RLt(R(0), mpc) THEN PosInf ELSE NegInf
        ELSE RDiv(mpc, den)

\* a >= b in place of a > b
DGreater_OrEqual(a, b) ==
    IF IsNaN(a) \/ IsNaN(b) THEN FALSE
    ELSE IF a.d = 0 \/ b.d = 0 THEN a = b \/ a = PosInf \/ b = NegInf
    ELSE RLe(b, a)

\* a > b for doubles that may be infinite or NaN
DGreater(a, b) ==
    IF IsNaN(a) \/ IsNaN(b) THEN FALSE
    ELSE IF a = PosInf THEN b # PosInf
    ELSE IF a = NegInf THEN FALSE
    ELSE IF b = PosInf THEN FALSE
    ELSE IF b = NegInf THEN TRUE
    ELSE RLt(b, a)

\* a - PIX_PER_CELL
DLessCell(a) == IF a.d = 0 THEN a ELSE RSub(a, R(PIX_PER_CELL))

RECURSIVE BestOverviewFrom(_, _, _, _, _, _, _)
BestOverviewFrom(ds, bandh, mpc, gt1, count, dBestPixelsPerCell, nBestIndex) ==
    IF count >= GDALGetOverviewCount(bandh) THEN nBestIndex
    ELSE LET ovw == GDALGetRasterBandXSize(GDALGetOverview(bandh, count))
             nFactor == IF ovw = 0 THEN 0 ELSE GDALGetRasterXSize(ds) \div ovw
             dPixelsPerCell == PixelsPerCell(mpc, gt1, nFactor)
         IN  IF DGreater(dPixelsPerCell, R(PIX_PER_CELL))
                /\ DGreater(DLessCell(dBestPixelsPerCell), DLessCell(dPixelsPerCell))
             THEN BestOverviewFrom(ds, bandh, mpc, gt1, count + 1,
                                   dPixelsPerCell, count + 1)
             ELSE BestOverviewFrom(ds, bandh, mpc, gt1, count + 1,
                                   dBestPixelsPerCell, nBestIndex)

gdal_get_best_overview(ds, extent) ==
    LET bandh == GDALGetRasterBand(ds, 1)
    IN  IF GDALGetOverviewCount(bandh) = 0 THEN 0
        ELSE IF GDALGetGeoTransform(ds) = NULL THEN 0
        ELSE LET gt1 == Deref(GDALGetGeoTransform(ds))[2]
             IN  BestOverviewFrom(ds, bandh, extent.dMetersPerCell, gt1, 0,
                                  PixelsPerCell(extent.dMetersPerCell, gt1, 1), 0)

(***************************************************************************)
(* get_stretch_for_gdal: the rule matcher.  A rule is a struct stretch     *)
(*   [comp, value, ctband, mode, stretchmode, stretchparam, bands].        *)
(***************************************************************************)
\* GDALGetMetadataItem(bandh, "LAYER_TYPE", NULL) is "thematic"
IsThematic(bandh) == bandh # NULL /\ Deref(bandh).band.layerType = "thematic"

\* lines 1327-1343: some column of the table has the usage
HasUsage(rath, usage) ==
    rath # NULL /\ \E c \in 1..Len(Deref(rath).cols) : Deref(rath).cols[c].usage = usage

\* lines 1305-1310 with > where the rule says "greater" replaced by >=
CompareCount_GreaterOrEqual(rasterCount, pStretch) ==
    IF pStretch.comp = VIEWER_COMP_LT THEN rasterCount < pStretch.value
    ELSE IF pStretch.comp = VIEWER_COMP_GT THEN rasterCount >= pStretch.value
    ELSE rasterCount = pStretch.value

\* lines 1305-1310: the band-count comparison of a rule with a valid comp
CompareCount(rasterCount, pStretch) ==
    IF pStretch.comp = VIEWER_COMP_LT THEN rasterCount < pStretch.value
    ELSE IF pStretch.comp = VIEWER_COMP_GT THEN rasterCount > pStretch.value
    ELSE rasterCount = pStretch.value

ValidComp(pStretch) ==
    pStretch.comp \in {VIEWER_COMP_LT, VIEWER_COMP_GT, VIEWER_COMP_EQ}

\* lines 1303-1346: the value of match when the loop body reaches line 1348
RuleMatches(ds, pStretch) ==
    LET rasterCount == GDALGetRasterCount(ds)
        match == CompareCount(rasterCount, pStretch)
    IN  IF match /\ pStretch.ctband # -1 /\ pStretch.ctband <= rasterCount
        THEN LET bandh == GDALGetRasterBand(ds, pStretch.ctband)
                 rath == GDALGetDefaultRAT(bandh)
             IN  IF IsThematic(bandh)
                 THEN /\ HasUsage(rath, "Red") /\ HasUsage(rath, "Green")
                      /\ HasUsage(rath, "Blue") /\ HasUsage(rath, "Alpha")
                 ELSE match
        ELSE match

\* the loop from rule i on: the index of the rule returned, 0 for NULL
RECURSIVE FirstMatchFrom(_, _, _)
FirstMatchFrom(stretches, ds, i) ==
    IF i > Len(stretches) THEN 0
    ELSE IF ~ValidComp(stretches[i]) THEN 0
    ELSE IF RuleMatches(ds, stretches[i]) THEN i
    ELSE FirstMatchFrom(stretches, ds, i + 1)

\* [rule, stretch]: the index of the rule and the pointer returned
get_stretch_for_gdal(stretches, ds) ==
    LET i == FirstMatchFrom(stretches, ds, 1)
    IN  [rule |-> i, stretch |-> IF i = 0 THEN NULL ELSE Ptr(stretches[i])]

(***************************************************************************)
(* gdal_close_file, gdal_load_image, gdal_open_file.                       *)
(* struct gdalFile is [ds, fullExtent, stretch].                           *)
(***************************************************************************)
gdal_close_file(file) == [file EXCEPT !.ds = NULL]

\* [im, crashed, msg, file, info, reads, overflow]: im is NULL or points to
\* the image; file is the struct gdalFile the call leaves.  Reading
\* file->stretch->mode through a NULL stretch kills the process.
gdal_load_image(file, extent, cw, ch, bld, garbage, fault) ==
    IF file.stretch = NULL
    THEN [im |-> NULL, crashed |-> TRUE, msg |-> "", file |-> file,
          info |-> NoInfo, reads |-> <<>>, overflow |-> FALSE]
    ELSE
    With(IF Deref(file.stretch).mode = VIEWER_MODE_RGB
         THEN gdal_read_multiband(file.ds, gdal_get_best_overview(file.ds, extent),
                                  Deref(file.stretch), extent,
                                  cw, ch, bld, garbage, fault)
         ELSE gdal_read_singleband(file.ds, gdal_get_best_overview(file.ds, extent),
                                   Deref(file.stretch), extent,
                                   cw, ch, bld, garbage, fault),
         LAMBDA r :
            IF r.crashed
            THEN [im |-> NULL, crashed |-> TRUE, msg |-> "", file |-> file,
                  info |-> r.info, reads |-> r.reads, overflow |-> r.overflow]
            ELSE IF r.ret = -1
            THEN [im |-> NULL, crashed |-> FALSE, msg |-> r.msg,
                  file |-> gdal_close_file(file),
                  info |-> r.info, reads |-> r.reads, overflow |-> r.overflow]
            ELSE [im |-> Ptr(r.im), crashed |-> FALSE, msg |-> r.msg, file |-> file,
                  info |-> r.info, reads |-> r.reads, overflow |-> r.overflow])

\* GDALOpen: NULL when the file cannot be opened
GDALOpen(file) == IF file.openable THEN Ptr(file) ELSE NULL

\* line 2717: MAX(a, b) is ((a) > (b)) ? (a) : (b)
MAX(a, b) == IF RLt(b, a) THEN a ELSE b

\* the matcher consulted first, pCmdStretch used when no rule matches
StretchToUse_MatcherFirst(cmdStretch, stretches, ds) ==
    IF get_stretch_for_gdal(stretches, ds).rule # 0
    THEN get_stretch_for_gdal(stretches, ds)
    ELSE [rule |-> 0, stretch |-> cmdStretch]

\* lines 2681-2688: file->stretch, and the index of the rule matched (0
\* when pCmdStretch is used or no rule matches)
StretchToUse(cmdStretch, stretches, ds) ==
    IF cmdStretch # NULL THEN [rule |-> 0, stretch |-> cmdStretch]
    ELSE get_stretch_for_gdal(stretches, ds)

\* [ok, msg, file, rule]: file is the struct gdalFile the call leaves, rule
\* the index of the rule matched (0 when none or when pCmdStretch is used).
\* cw, ch are the globals ww, wh.
gdal_open_file(pszFile, file, stretches, cmdStretch, cw, ch) ==
    LET ds == GDALOpen(pszFile)
        found == StretchToUse(cmdStretch, stretches, ds)
        stretch == found.stretch
        rule == found.rule
        opened == [file EXCEPT !.ds = ds, !.stretch = stretch]
    IN  IF ds = NULL
        THEN [ok |-> FALSE, msg |-> "Could not open %s with GDAL",
              file |-> [file EXCEPT !.ds = NULL], rule |-> 0]
        ELSE IF stretch = NULL
        THEN [ok |-> FALSE, msg |-> "Could not find stretch to use for %s",
              file |-> gdal_close_file(opened), rule |-> 0]
        ELSE IF GDALGetGeoTransform(ds) = NULL
        THEN [ok |-> FALSE, msg |-> "No Geo Transform",
              file |-> gdal_close_file(opened), rule |-> rule]
        ELSE
        LET adfTransform == Deref(GDALGetGeoTransform(ds))
            xsize == GDALGetRasterXSize(ds)
            ysize == GDALGetRasterYSize(ds)
        IN  [ok |-> TRUE, msg |-> "", rule |-> rule,
             file |-> [opened EXCEPT !.fullExtent =
                [dCentreX |-> RAdd(adfTransform[1],
                                   RMul(adfTransform[2], R(CDiv(xsize, 2)))),
                 dCentreY |-> RAdd(adfTransform[4],
                                   RMul(adfTransform[6], R(CDiv(ysize, 2)))),
                 dMetersPerCell |->
                    MAX(RDiv(RMul(adfTransform[2], R(xsize)), R(cw)),
                        RDiv(RMul(RNeg(adfTransform[6]), R(ysize)), R(ch)))]]]

\* set_gamma: <<g, im>> after the call
set_gamma(new_gamma, gOld, image) ==
    IF image = NULL THEN <<gOld, image>>
    ELSE LET gNew == IF new_gamma > GAMMA_MAX THEN GAMMA_MAX
                     ELSE IF new_gamma < -GAMMA_MAX THEN -GAMMA_MAX
                     ELSE new_gamma
         IN  <<gNew, Ptr([Deref(image) EXCEPT !.dither =
                              Ptr([Deref(@) EXCEPT !.gamma = gNew])])>>

(***************************************************************************)
(* Datasets and inputs of the model.                                       *)
(***************************************************************************)
\* north-up geotransform: origin (ox, oy), square pixels of size px
NorthUp(ox, oy, px) == Ptr(<<R(ox), R(px), R(0), R(oy), R(0), R(-px)>>)

PlainBand(vals) ==
    [layerType |-> "athematic", min |-> Ptr(R(0)), max |-> Ptr(R(255)),
     mean |-> Ptr(R(100)), stddev |-> Ptr(R(50)), rat |-> NULL, vals |-> vals]

\* a 4x4 raster with one 2x2 overview, and a 3x2 raster of 2-unit pixels
WinDatasets ==
    { [openable |-> TRUE, xsize |-> 4, ysize |-> 4, gt |-> NorthUp(0, 0, 1),
       overviews |-> <<[xsize |-> 2, ysize |-> 2]>>,
       bands |-> <<PlainBand(<<10, 20, 30>>)>>],
      [openable |-> TRUE, xsize |-> 3, ysize |-> 2, gt |-> NorthUp(1, -1, 2),
       overviews |-> <<>>,
       bands |-> <<PlainBand(<<10, 20, 30>>)>>] }

\* bounds of the window-mapper inputs
GridDen == 2          \* coordinates are multiples of 1/GridDen
WinReach == 3         \* centres range WinReach grid steps around the raster
WinMaxCells == 2      \* canvas sizes 1..WinMaxCells
WinMaxMpc == 6        \* metres per cell: k/(2*GridDen), k in 1..WinMaxMpc

ZeroExtent == [dCentreX |-> R(0), dCentreY |-> R(0), dMetersPerCell |-> R(0)]

WinExtents ==
    { [dCentreX |-> Frac(i, GridDen), dCentreY |-> Frac(-j, GridDen),
       dMetersPerCell |-> Frac(k, 2 * GridDen)] :
        i \in (-WinReach)..(6 + WinReach),
        j \in (-WinReach)..(6 + WinReach),
        k \in 1..WinMaxMpc }

\* io: fn the call made last, dsOpen and stretchSet whether it was given an
\* open handle and a stretch, hadImage whether an image was discarded for
\* it, rule the index of the rule the matcher returned (0: none), reads the
\* status of each GDALRasterIO call it
\* made, overflow whether a read wrote outside the sample buffer, result
\* "image", "ok", "failed" or "crashed", ret the value returned by a
\* function called on its own
NoIO == [fn |-> "none", dsOpen |-> TRUE, stretchSet |-> TRUE, hadImage |-> FALSE,
         rule |-> 0, reads |-> <<>>, overflow |-> FALSE, result |-> "none",
         ret |-> NULL]

InitWin ==
    /\ disk \in WinDatasets
    /\ stretchList = <<>>
    /\ pCmdStretch = NULL
    /\ gdalfile = [ds |-> Ptr(disk), fullExtent |-> ZeroExtent, stretch |-> NULL]
    /\ dispExtent \in WinExtents
    /\ im = NULL
    /\ szGDALMessages = ""
    /\ g = 0
    /\ ww \in 1..WinMaxCells
    /\ wh \in 1..WinMaxCells
    /\ quit = FALSE /\ update = FALSE /\ status = 0
    /\ reload = FALSE /\ rezoom = FALSE
    /\ new_status = 0 /\ dither_algorithm = 0 /\ nEvents = 0
    /\ pc = "call"
    /\ info = NoInfo
    /\ io = NoIO
    /\ build \in Builds
    /\ heap = 0
    /\ geolink = NoGeolink

\* one call of prepare_for_reading, for any resolution level of the dataset
PrepareForReading ==
    /\ pc = "call"
    /\ \E lvl \in 0..GDALGetOverviewCount(GDALGetRasterBand(gdalfile.ds, 1)) :
        LET bandh == GDALGetRasterBand(gdalfile.ds, 1)
            ovh == IF lvl = 0 THEN bandh ELSE GDALGetOverview(bandh, lvl - 1)
        IN  \E r \in {prepare_for_reading(PIX_PER_CELL * ww, PIX_PER_CELL * wh,
                                          gdalfile.ds, ovh, dispExtent, ww, wh, build)} :
                /\ info' = r.info
                /\ szGDALMessages' = r.msg
                /\ io' = [io EXCEPT !.fn = "prepare_for_reading",
                                    !.result = IF r.ok THEN "ok" ELSE "failed"]
    /\ pc' = "returned"
    /\ UNCHANGED <<disk, geolink, stretchList, pCmdStretch, gdalfile, dispExtent, im,
                   g, ww, wh, build, heap>>
    /\ UNCHANGED loopVars

NextWin == PrepareForReading

SpecWin == InitWin /\ [][NextWin]_vars


(***************************************************************************)
(* SpecRender: one call of gdal_load_image on an open file, for each       *)
(* dataset, stretch and view of the sets below.                            *)
(***************************************************************************)
Stretch(mode, stretchmode, p1, p2, b1, b2, b3) ==
    [comp |-> VIEWER_COMP_EQ, value |-> 1, ctband |-> -1, mode |-> mode,
     stretchmode |-> stretchmode, stretchparam |-> <<p1, p2>>,
     bands |-> <<b1, b2, b3>>]

Column(usage, vals) == [usage |-> usage, vals |-> vals]

\* a thematic band with a colour table and a histogram
ClassBand ==
    [layerType |-> "thematic", min |-> Ptr(R(0)), max |-> Ptr(R(3)),
     mean |-> Ptr(Frac(3, 2)), stddev |-> Ptr(R(1)),
     rat |-> Ptr([rows |-> 4,
                  cols |-> << Column("PixelCount", <<4, 4, 6, 2>>),
                              Column("Red", <<255, 10, 20, 30>>),
                              Column("Green", <<0, 110, 120, 130>>),
                              Column("Blue", <<7, 210, 220, 230>>),
                              Column("Alpha", <<0, 255, 255, 255>>) >>]),
     vals |-> <<1, 2, 3, 0, 2>>]

\* a continuous band whose values start below zero
SignedBand ==
    [layerType |-> "athematic", min |-> Ptr(R(-10)), max |-> Ptr(R(245)),
     mean |-> Ptr(R(100)), stddev |-> Ptr(R(50)), rat |-> NULL,
     vals |-> <<-10, 50, 245, 100, 0>>]

\* a band without statistics
BareBand ==
    [layerType |-> "athematic", min |-> NULL, max |-> NULL,
     mean |-> NULL, stddev |-> NULL, rat |-> NULL, vals |-> <<1, 2, 3>>]

\* a thematic band with a class that has no row in its attribute table
SparseBand ==
    [layerType |-> "thematic", min |-> Ptr(R(0)), max |-> Ptr(R(5)),
     mean |-> Ptr(R(3)), stddev |-> Ptr(R(2)),
     rat |-> Ptr([rows |-> 2,
                  cols |-> << Column("Red", <<255, 10>>),
                              Column("Green", <<0, 110>>),
                              Column("Blue", <<7, 210>>) >>]),
     vals |-> <<5, 1>>]

RenderDatasets ==
    { [openable |-> TRUE, xsize |-> 4, ysize |-> 4, gt |-> NorthUp(0, 0, 1),
       overviews |-> <<[xsize |-> 2, ysize |-> 2]>>,
       bands |-> <<ClassBand, SignedBand, PlainBand(<<10, 20, 30>>)>>],
      [openable |-> TRUE, xsize |-> 3, ysize |-> 2, gt |-> NorthUp(1, -1, 2),
       overviews |-> <<>>,
       bands |-> <<BareBand>>],
      [openable |-> TRUE, xsize |-> 2, ysize |-> 2, gt |-> NorthUp(0, 0, 1),
       overviews |-> <<>>,
       bands |-> <<SparseBand>>] }

RenderStretches ==
    { Stretch(VIEWER_MODE_GREYSCALE, VIEWER_STRETCHMODE_NONE, R(0), R(0), 1, 0, 0),
      Stretch(VIEWER_MODE_GREYSCALE, VIEWER_STRETCHMODE_LINEAR, R(0), R(0), 2, 0, 0),
      Stretch(VIEWER_MODE_GREYSCALE, VIEWER_STRETCHMODE_STDDEV, R(2), R(0), 2, 0, 0),
      Stretch(VIEWER_MODE_GREYSCALE, VIEWER_STRETCHMODE_HIST,
              Frac(1, 40), Frac(1, 100), 1, 0, 0),
      Stretch(VIEWER_MODE_COLORTABLE, VIEWER_STRETCHMODE_NONE, R(0), R(0), 1, 0, 0),
      Stretch(VIEWER_MODE_COLORTABLE, VIEWER_STRETCHMODE_LINEAR, R(0), R(0), 1, 0, 0),
      Stretch(VIEWER_MODE_RGB, VIEWER_STRETCHMODE_LINEAR, R(0), R(0), 1, 2, 3),
      Stretch(VIEWER_MODE_RGB, VIEWER_STRETCHMODE_NONE, R(0), R(0), 3, 2, 4) }

\* views one cell wide: inside, across an edge, wholly outside, the whole
\* raster, and a fraction of a pixel
RenderExtents ==
    { [dCentreX |-> R(x), dCentreY |-> R(y), dMetersPerCell |-> m] :
        x \in {-3, 0, 2}, y \in {-2}, m \in {Frac(1, 4), R(2), R(4)} }

\* canvas sizes <<ww, wh>> of the renders
RenderCanvases == {<<1, 1>>}

\* what the heap may hold where the program never wrote
HeapValues == {0, 200}

InitRender ==
    /\ disk \in RenderDatasets
    /\ stretchList = <<>>
    /\ pCmdStretch \in {Ptr(st) : st \in RenderStretches}
    /\ gdalfile = [ds |-> Ptr(disk), fullExtent |-> ZeroExtent, stretch |-> pCmdStretch]
    /\ dispExtent \in RenderExtents
    /\ im = NULL
    /\ szGDALMessages = ""
    /\ g = 0
    /\ \E c \in RenderCanvases : ww = c[1] /\ wh = c[2]
    /\ quit = FALSE /\ update = FALSE /\ status = 0
    /\ reload = FALSE /\ rezoom = FALSE
    /\ new_status = 0 /\ dither_algorithm = 0 /\ nEvents = 0
    /\ pc = "call"
    /\ info = NoInfo
    /\ io = NoIO
    /\ build \in Builds
    /\ heap \in HeapValues
    /\ geolink = NoGeolink

\* im = gdal_load_image(&gdalfile, &dispExtent)
LoadImage ==
    /\ pc = "call"
    /\ \E fault \in Faults :
        \E r \in {gdal_load_image(gdalfile, dispExtent, ww, wh, build, heap, fault)} :
            /\ im' = r.im
            /\ szGDALMessages' = r.msg
            /\ gdalfile' = r.file
            /\ info' = r.info
            /\ io' = [fn |-> "gdal_load_image", dsOpen |-> gdalfile.ds # NULL,
                      stretchSet |-> gdalfile.stretch # NULL,
                      hadImage |-> FALSE, rule |-> 0, reads |-> r.reads,
                      overflow |-> r.overflow,
                      result |-> IF r.crashed THEN "crashed"
                                 ELSE IF r.im = NULL THEN "failed" ELSE "image",
                      ret |-> NULL]
    /\ pc' = "returned"
    /\ UNCHANGED <<disk, geolink, stretchList, pCmdStretch, dispExtent, g, ww, wh,
                   build, heap>>
    /\ UNCHANGED loopVars

NextRender == LoadImage

SpecRender == InitRender /\ [][NextRender]_vars

(***************************************************************************)
(* SpecMatch: one call of get_stretch_for_gdal, for each rule list and     *)
(* dataset of the sets below.                                              *)
(***************************************************************************)
MaxRules == 2         \* rule lists of 1..MaxRules rules
MatchMaxValue == 2    \* thresholds 1..MatchMaxValue
MatchMaxBand == 2     \* colour-table bands 1..MatchMaxBand, or -1

\* a rule as stretch_from_string leaves it: a colour-table display for a
\* rule with a colour-table band, greyscale otherwise
MatchRule(comp, value, ctband) ==
    [comp |-> comp, value |-> value, ctband |-> ctband,
     mode |-> IF ctband = -1 THEN VIEWER_MODE_GREYSCALE ELSE VIEWER_MODE_COLORTABLE,
     stretchmode |-> VIEWER_STRETCHMODE_NONE,
     stretchparam |-> <<R(0), R(0)>>, bands |-> <<1, 0, 0>>]

MatchRules ==
    { MatchRule(comp, value, ctband) :
        comp \in {VIEWER_COMP_LT, VIEWER_COMP_GT, VIEWER_COMP_EQ},
        value \in 1..MatchMaxValue,
        ctband \in {-1} \cup (1..MatchMaxBand) }

\* rules without colour-table band that display other bands than band 1:
\* "equal,1,-1:greyscale,none,,2", "less,2,-1:rgb,none,,1|2|3", ...
BandRules ==
    { [MatchRule(comp, value, -1) EXCEPT !.mode = m, !.bands = bs] :
        comp \in {VIEWER_COMP_LT, VIEWER_COMP_GT, VIEWER_COMP_EQ},
        value \in 1..MatchMaxValue,
        m \in {VIEWER_MODE_GREYSCALE, VIEWER_MODE_RGB},
        bs \in {<<2, 0, 0>>, <<2, 1, 1>>, <<1, 2, 3>>} }

\* the lists of 1..MaxRules rules, and each of BandRules on its own
RuleLists ==
    UNION { [1..n -> MatchRules] : n \in 1..MaxRules } \cup { <<r>> : r \in BandRules }

\* a thematic band whose table lacks the Alpha column
NoAlphaBand ==
    [ClassBand EXCEPT !.rat =
        Ptr([rows |-> 4,
             cols |-> << Column("Red", <<255, 10, 20, 30>>),
                         Column("Green", <<0, 110, 120, 130>>),
                         Column("Blue", <<7, 210, 220, 230>>) >>])]

\* a thematic band without attribute table
NoTableBand == [ClassBand EXCEPT !.rat = NULL]

MatchDataset(bands) ==
    [openable |-> TRUE, xsize |-> 4, ysize |-> 4, gt |-> NorthUp(0, 0, 1),
     overviews |-> <<>>, bands |-> bands]

MatchDatasets ==
    { MatchDataset(<<ClassBand>>),
      MatchDataset(<<NoAlphaBand>>),
      MatchDataset(<<PlainBand(<<10, 20, 30>>)>>),
      MatchDataset(<<PlainBand(<<10, 20, 30>>), ClassBand>>),
      MatchDataset(<<NoTableBand, SignedBand>>) }

InitMatch ==
    /\ disk \in MatchDatasets
    /\ stretchList \in RuleLists
    /\ pCmdStretch = NULL
    /\ gdalfile = [ds |-> Ptr(disk), fullExtent |-> ZeroExtent, stretch |-> NULL]
    /\ dispExtent = ZeroExtent
    /\ im = NULL
    /\ szGDALMessages = ""
    /\ g = 0
    /\ ww = 1 /\ wh = 1
    /\ quit = FALSE /\ update = FALSE /\ status = 0
    /\ reload = FALSE /\ rezoom = FALSE
    /\ new_status = 0 /\ dither_algorithm = 0 /\ nEvents = 0
    /\ pc = "call"
    /\ info = NoInfo
    /\ io = NoIO
    /\ build = "x86"
    /\ heap = 0
    /\ geolink = NoGeolink

\* file->stretch = get_stretch_for_gdal(stretchList, file->ds)
GetStretch ==
    /\ pc = "call"
    /\ \E r \in {get_stretch_for_gdal(stretchList, gdalfile.ds)} :
        /\ gdalfile' = [gdalfile EXCEPT !.stretch = r.stretch]
        /\ io' = [io EXCEPT !.fn = "get_stretch_for_gdal", !.rule = r.rule,
                            !.result = IF r.rule = 0 THEN "failed" ELSE "ok"]
    /\ pc' = "returned"
    /\ UNCHANGED <<disk, geolink, stretchList, pCmdStretch, dispExtent, im, szGDALMessages,
                   g, ww, wh, info, build, heap>>
    /\ UNCHANGED loopVars

NextMatch == GetStretch

SpecMatch == InitMatch /\ [][NextMatch]_vars

(***************************************************************************)
(* The rule parser.  A string is a sequence of lexemes: each delimiter     *)
(* character ",", ":" or "|" on its own, and each run of other characters  *)
(* as one word; "equal,1,-1" is <<"equal", ",", "1", ",", "-1">>.          *)
(***************************************************************************)
\* CSLTokenizeString2(pszString, delim, flags) from lexeme i on: cur is the
\* token being read, acc the tokens read.  An empty token is kept only
\* with CSLT_ALLOWEMPTYTOKENS; the string ending in a delimiter then gives
\* a last, empty token; the empty string gives no token
RECURSIVE TokensFrom(_, _, _, _, _, _)
TokensFrom(pszString, delim, allowEmpty, i, cur, acc) ==
    IF i > Len(pszString)
    THEN IF cur # <<>> THEN Append(acc, cur)
         ELSE IF allowEmpty /\ Len(acc) > 0 THEN Append(acc, <<>>)
         ELSE acc
    ELSE IF pszString[i] = delim
    THEN TokensFrom(pszString, delim, allowEmpty, i + 1, <<>>,
                    IF cur # <<>> \/ allowEmpty THEN Append(acc, cur) ELSE acc)
    ELSE TokensFrom(pszString, delim, allowEmpty, i + 1, Append(cur, pszString[i]), acc)

CSLTokenizeString2(pszString, delim, allowEmpty) ==
    TokensFrom(pszString, delim, allowEmpty, 1, <<>>, <<>>)

\* pszTokens[n], n from 0: NULL past the last token
TokenAt(pszTokens, n) == IF n < Len(pszTokens) THEN Ptr(pszTokens[n + 1]) ELSE NULL

\* strcmp(pszTmp, word) == 0
IsWord(pszTmp, word) == pszTmp = (IF word = "" THEN <<>> ELSE <<word>>)

\* atof: the number the string starts with, 0 when it starts with none
atof(pszTmp) ==
    IF pszTmp = <<>> THEN R(0)
    ELSE CASE pszTmp[1] = "-1" -> R(-1)
           [] pszTmp[1] = "1" -> R(1)
           [] pszTmp[1] = "2" -> R(2)
           [] pszTmp[1] = "3" -> R(3)
           [] pszTmp[1] = "4" -> R(4)
           [] pszTmp[1] = "5" -> R(5)
           [] pszTmp[1] = "6" -> R(6)
           [] pszTmp[1] = "2.0" -> R(2)
           [] pszTmp[1] = "0.5" -> Frac(1, 2)
           [] pszTmp[1] = "0.9" -> Frac(9, 10)
           [] OTHER -> R(0)

\* atol: the integer the string starts with
atol(pszTmp) == TruncZ(atof(pszTmp))

\* a struct stretch as CPLRealloc hands it out: every field is what the
\* heap holds
UninitStretch(garbage) ==
    [comp |-> garbage, value |-> garbage, ctband |-> garbage, mode |-> garbage,
     stretchmode |-> garbage, stretchparam |-> <<R(garbage), R(garbage)>>,
     bands |-> <<garbage, garbage, garbage>>]

\* the parsers return [ok, msg, stretch]
ParseFailed(msg, newStretch) == [ok |-> FALSE, msg |-> msg, stretch |-> newStretch]

\* rulepart_from_string
rulepart_from_string(newStretch, pszString) ==
    LET pszTokens == CSLTokenizeString2(pszString, ",", TRUE)
        t0 == TokenAt(pszTokens, 0)
        t1 == TokenAt(pszTokens, 1)
        t2 == TokenAt(pszTokens, 2)
        comp == IF IsWord(Deref(t0), "less") THEN VIEWER_COMP_LT
                ELSE IF IsWord(Deref(t0), "greater") THEN VIEWER_COMP_GT
                ELSE VIEWER_COMP_EQ
    IN  IF t0 = NULL THEN ParseFailed("Missing comparison in rule string", newStretch)
        ELSE IF ~(\E w \in {"less", "greater", "equal"} : IsWord(Deref(t0), w))
        THEN ParseFailed("Unable to understand comparison %s", newStretch)
        ELSE IF t1 = NULL
        THEN ParseFailed("Missing comparison value in rule string",
                         [newStretch EXCEPT !.comp = comp])
        ELSE IF t2 = NULL
        THEN ParseFailed("Missing color table band value in rule string",
                         [newStretch EXCEPT !.comp = comp, !.value = atol(Deref(t1))])
        ELSE [ok |-> TRUE, msg |-> "",
              stretch |-> [newStretch EXCEPT !.comp = comp,
                                             !.value = atol(Deref(t1)),
                                             !.ctband = atol(Deref(t2))]]

\* lines 1209-1219 and 1229-1239: the first max tokens of pszExtraTokens,
\* converted, over the values the array held
OverwriteFirst(old, pszExtraTokens, max, convert(_)) ==
    [i \in 1..Len(old) |->
        IF i <= max /\ i <= Len(pszExtraTokens) THEN convert(pszExtraTokens[i])
        ELSE old[i]]

\* the stretch modes by name; "" stands for none
StretchModeNames ==
    [none |-> VIEWER_STRETCHMODE_NONE, linear |-> VIEWER_STRETCHMODE_LINEAR,
     stddev |-> VIEWER_STRETCHMODE_STDDEV, histogram |-> VIEWER_STRETCHMODE_HIST]
ModeNames ==
    [colortable |-> VIEWER_MODE_COLORTABLE, greyscale |-> VIEWER_MODE_GREYSCALE,
     rgb |-> VIEWER_MODE_RGB]

\* stretchpart_from_string: the part to the right of the ":"
stretchpart_from_string(newStretch, pszString) ==
    LET pszTokens == CSLTokenizeString2(pszString, ",", TRUE)
        t0 == TokenAt(pszTokens, 0)
        t1 == TokenAt(pszTokens, 1)
        t2 == TokenAt(pszTokens, 2)
        t3 == TokenAt(pszTokens, 3)
        withMode == [newStretch EXCEPT !.mode = ModeNames[Deref(t0)[1]]]
        withStretch ==
            [withMode EXCEPT !.stretchmode =
                IF Deref(t1) = <<>> THEN VIEWER_STRETCHMODE_NONE
                ELSE StretchModeNames[Deref(t1)[1]]]
        withParams ==
            [withStretch EXCEPT !.stretchparam =
                OverwriteFirst(@, CSLTokenizeString2(Deref(t2), "|", FALSE), 2, atof)]
    IN  IF t0 = NULL THEN ParseFailed("Missing value in rule string", newStretch)
        ELSE IF ~(\E w \in DOMAIN ModeNames : IsWord(Deref(t0), w))
        THEN ParseFailed("Unable to understand stretch mode %s", newStretch)
        ELSE IF t1 = NULL THEN ParseFailed("Missing value in rule string", withMode)
        ELSE IF ~(\E w \in DOMAIN StretchModeNames \cup {""} : IsWord(Deref(t1), w))
        THEN ParseFailed("Unable to understand stretch mode %s", withMode)
        ELSE IF t2 = NULL THEN ParseFailed("Missing value in rule string", withStretch)
        ELSE IF t3 = NULL THEN ParseFailed("Missing value in rule string", withParams)
        ELSE [ok |-> TRUE, msg |-> "",
              stretch |-> [withParams EXCEPT !.bands =
                  OverwriteFirst(@, CSLTokenizeString2(Deref(t3), "|", FALSE), 3, atol)]]

\* stretch_from_string: the rule, a ":", the stretch
stretch_from_string(newStretch, pszString) ==
    LET pszRuleAndStretch == CSLTokenizeString2(pszString, ":", TRUE)
        t0 == TokenAt(pszRuleAndStretch, 0)
        t1 == TokenAt(pszRuleAndStretch, 1)
    IN  IF t0 = NULL THEN ParseFailed("Missing rule string", newStretch)
        ELSE With(rulepart_from_string(newStretch, Deref(t0)),
                  LAMBDA rule :
                    IF ~rule.ok THEN rule
                    ELSE IF t1 = NULL
                    THEN ParseFailed("Missing stretch string", rule.stretch)
                    ELSE stretchpart_from_string(rule.stretch, Deref(t1)))

(***************************************************************************)
(* SpecParse: the construction of the rule list in main, for each list of  *)
(* Rule lines that the configuration file may hold.  disk is               *)
(* [rules |-> the strings of the Rule lines]; pc is "config" while the     *)
(* lines are read, then "args", or "exited" after exit(1).                 *)
(***************************************************************************)
\* the text of pszDefaultStretchRules
DefaultRuleStrings ==
    << <<"equal", ",", "1", ",", "1", ":", "colortable", ",", "none", ",", ",", "1">>,
       <<"equal", ",", "1", ",", "-1", ":", "greyscale", ",", "none", ",", ",", "1">>,
       <<"equal", ",", "2", ",", "-1", ":", "greyscale", ",", "none", ",", ",", "1">>,
       <<"equal", ",", "3", ",", "-1", ":", "rgb", ",", "none", ",", ",",
         "1", "|", "2", "|", "3">>,
       <<"less", ",", "6", ",", "-1", ":", "rgb", ",", "stddev", ",", "2.0", ",",
         "4", "|", "3", "|", "2">>,
       <<"greater", ",", "5", ",", "-1", ":", "rgb", ",", "stddev", ",", "2.0", ",",
         "5", "|", "4", "|", "2">> >>

\* rule strings: a rule part, ":" or ",", a stretch part; parts with an
\* unknown word, with a field left empty or with a field missing included
ParseStrings ==
    { r \o <<sep>> \o <<m, ",">> \o s \o <<",">> \o p \o <<",">> \o b :
        r \in { <<c, ",", "1", ",", ct>> : c \in {"equal", "less", "bogus"},
                                           ct \in {"1", "-1"} }
              \cup { <<"equal", ",", "1">> },
        sep \in {":", ","},
        m \in {"colortable", "rgb", "bogus"},
        s \in {<<"none">>, <<>>, <<"stddev">>},
        p \in {<<>>, <<"2.0">>, <<"0.5", "|", "0.9">>},
        b \in {<<"1">>, <<"1", "|", "2", "|", "3">>, <<>>} }

\* the Rule lines of a configuration file: none, one, or two
ConfigFiles ==
    {<<>>} \cup { <<s>> : s \in ParseStrings }
    \cup { <<s, t>> : s, t \in {DefaultRuleStrings[1], DefaultRuleStrings[5],
                                <<"equal", ",", "1">>} }

InitParse ==
    /\ disk \in { [rules |-> f] : f \in ConfigFiles }
    /\ heap \in HeapValues
    /\ stretchList = <<>>
    /\ pCmdStretch = NULL
    /\ gdalfile = [ds |-> NULL, fullExtent |-> ZeroExtent, stretch |-> NULL]
    /\ dispExtent = ZeroExtent
    /\ im = NULL
    /\ szGDALMessages = ""
    /\ g = 0
    /\ ww = 1 /\ wh = 1
    /\ quit = FALSE /\ update = TRUE /\ status = 0
    /\ reload = FALSE /\ rezoom = FALSE
    /\ new_status = 0 /\ dither_algorithm = 0 /\ nEvents = 0
    /\ pc = "config"
    /\ info = NoInfo
    /\ io = NoIO
    /\ build = "x86"
    /\ geolink = NoGeolink

\* lines 1470-1480: a Rule line; the list grows by one struct, which
\* stretch_from_string fills in; main exits when the parse fails.  io.rule
\* is the number of the line, io.ret what the parse returned
ParseRule ==
    /\ pc = "config"
    /\ Len(stretchList) < Len(disk.rules)
    /\ \E r \in {stretch_from_string(UninitStretch(heap),
                                     disk.rules[Len(stretchList) + 1])} :
        /\ io' = [io EXCEPT !.fn = "stretch_from_string",
                            !.rule = Len(stretchList) + 1,
                            !.result = IF r.ok THEN "ok" ELSE "failed",
                            !.ret = r]
        /\ stretchList' = IF r.ok THEN Append(stretchList, r.stretch) ELSE stretchList
        /\ pc' = IF r.ok THEN "config" ELSE "exited"
    /\ UNCHANGED <<disk, geolink, pCmdStretch, gdalfile, dispExtent, im, szGDALMessages,
                   g, ww, wh, info, build, heap>>
    /\ UNCHANGED loopVars

\* lines 1496-1511: no rule was read, the default rules are parsed
UseDefaults ==
    /\ pc = "config"
    /\ Len(disk.rules) = 0
    /\ stretchList' =
          [i \in 1..Len(DefaultRuleStrings) |->
              stretch_from_string(UninitStretch(heap), DefaultRuleStrings[i]).stretch]
    /\ io' = [io EXCEPT !.fn = "stretch_from_string", !.rule = 0, !.result = "ok"]
    /\ pc' = "args"
    /\ UNCHANGED <<disk, geolink, pCmdStretch, gdalfile, dispExtent, im, szGDALMessages,
                   g, ww, wh, info, build, heap>>
    /\ UNCHANGED loopVars

\* the rules of the file were read
RulesRead ==
    /\ pc = "config"
    /\ Len(disk.rules) > 0 /\ Len(stretchList) = Len(disk.rules)
    /\ pc' = "args"
    /\ UNCHANGED <<disk, geolink, stretchList, pCmdStretch, gdalfile, dispExtent, im,
                   szGDALMessages, g, ww, wh, info, io, build, heap>>
    /\ UNCHANGED loopVars

NextParse == ParseRule \/ UseDefaults \/ RulesRead

SpecParse == InitParse /\ [][NextParse]_vars

(***************************************************************************)
(* SpecOpen: one call of gdal_open_file, for each file, rule list and      *)
(* command-line stretch of the sets below.                                 *)
(***************************************************************************)
\* the files: the datasets of the matcher, one that GDAL cannot open and
\* one without geotransform
OpenFiles ==
    MatchDatasets
    \cup { [MatchDataset(<<ClassBand>>) EXCEPT !.openable = FALSE],
           [MatchDataset(<<ClassBand>>) EXCEPT !.gt = NULL] }

InitOpen ==
    /\ disk \in OpenFiles
    /\ stretchList \in RuleLists
    /\ pCmdStretch \in {NULL} \cup {Ptr(st) : st \in RenderStretches}
    /\ gdalfile = [ds |-> NULL, fullExtent |-> ZeroExtent, stretch |-> NULL]
    /\ dispExtent = ZeroExtent
    /\ im = NULL
    /\ szGDALMessages = ""
    /\ g = 0
    /\ ww = 1 /\ wh = 1
    /\ quit = FALSE /\ update = FALSE /\ status = 0
    /\ reload = FALSE /\ rezoom = FALSE
    /\ new_status = 0 /\ dither_algorithm = 0 /\ nEvents = 0
    /\ pc = "call"
    /\ info = NoInfo
    /\ io = NoIO
    /\ build = "x86"
    /\ heap = 0
    /\ geolink = NoGeolink

\* gdal_open_file(pszFile, &gdalfile, &stretchList, pCmdStretch)
OpenFile ==
    /\ pc = "call"
    /\ \E r \in {gdal_open_file(disk, gdalfile, stretchList, pCmdStretch, ww, wh)} :
        /\ gdalfile' = r.file
        /\ szGDALMessages' = r.msg
        /\ io' = [io EXCEPT !.fn = "gdal_open_file", !.rule = r.rule,
                            !.result = IF r.ok THEN "ok" ELSE "failed"]
    /\ pc' = "returned"
    /\ UNCHANGED <<disk, geolink, stretchList, pCmdStretch, dispExtent, im,
                   g, ww, wh, info, build, heap>>
    /\ UNCHANGED loopVars

NextOpen == OpenFile

SpecOpen == InitOpen /\ [][NextOpen]_vars

(***************************************************************************)
(* SpecOverview: one call of gdal_get_best_overview.                       *)
(***************************************************************************)
OvXSize == 12         \* width of the datasets
OvMaxFactor == 4      \* overviews are OvXSize \div 1 .. OvXSize \div OvMaxFactor wide
OvMaxCount == 2       \* overviews of a dataset
OvMaxMpc == 13        \* dMetersPerCell is 10, 20 .. 10 * OvMaxMpc

OvSizes == { OvXSize \div f : f \in 1..OvMaxFactor }

\* the overview lists, in any order
OvLists ==
    UNION { [1..n -> { [xsize |-> w, ysize |-> w] : w \in OvSizes }] : n \in 0..OvMaxCount }

\* datasets with pixel size 1 or 2, east-west flipped, or without geotransform
OvDatasets ==
    { [openable |-> TRUE, xsize |-> OvXSize, ysize |-> OvXSize, gt |-> gt,
       overviews |-> ovs, bands |-> <<PlainBand(<<10, 20, 30>>)>>] :
        gt \in {NorthUp(0, 0, 1), NorthUp(0, 0, 2), NorthUp(0, 0, -1), NULL},
        ovs \in OvLists }

InitOverview ==
    /\ disk \in OvDatasets
    /\ \E k \in 1..OvMaxMpc :
        dispExtent = [dCentreX |-> R(0), dCentreY |-> R(0), dMetersPerCell |-> R(10 * k)]
    /\ stretchList = <<>>
    /\ pCmdStretch = NULL
    /\ gdalfile = [ds |-> Ptr(disk), fullExtent |-> ZeroExtent, stretch |-> NULL]
    /\ im = NULL
    /\ szGDALMessages = ""
    /\ g = 0
    /\ ww = 1 /\ wh = 1
    /\ quit = FALSE /\ update = FALSE /\ status = 0
    /\ reload = FALSE /\ rezoom = FALSE
    /\ new_status = 0 /\ dither_algorithm = 0 /\ nEvents = 0
    /\ pc = "call"
    /\ info = NoInfo
    /\ io = NoIO
    /\ build = "x86"
    /\ heap = 0
    /\ geolink = NoGeolink

\* overviewIndex = gdal_get_best_overview(file->ds, extent)
GetBestOverview ==
    /\ pc = "call"
    /\ io' = [io EXCEPT !.fn = "gdal_get_best_overview", !.result = "ok",
                        !.ret = gdal_get_best_overview(gdalfile.ds, dispExtent)]
    /\ pc' = "returned"
    /\ UNCHANGED <<disk, geolink, stretchList, pCmdStretch, gdalfile, dispExtent, im,
                   szGDALMessages, g, ww, wh, info, build, heap>>
    /\ UNCHANGED loopVars

NextOverview == GetBestOverview

SpecOverview == InitOverview /\ [][NextOverview]_vars

(***************************************************************************)
(* SpecStretch: one call of do_stretch on a buffer holding samples of a    *)
(* band, for each band, stretch and buffer of the sets below.              *)
(***************************************************************************)
StMaxLen == 2         \* samples in the buffer
StMaxBins == 3        \* rows of the histogram

\* the sample values of a band, in buffer order
StBuffers == UNION { [1..n -> {-1, 0, 1, 2, 100, 255, 300}] : n \in 1..StMaxLen }
\* <<STATISTICS_MINIMUM, STATISTICS_MAXIMUM>>
StRanges == { <<0, 255>>, <<0, 3>>, <<1, 3>>, <<2, 2>>, <<-1, 2>> }

\* attribute tables: none, one without a histogram, one for each histogram
StTables ==
    {NULL, Ptr([rows |-> 2, cols |-> << Column("Red", <<1, 2>>) >>])}
    \cup UNION { { Ptr([rows |-> n, cols |-> << Column("PixelCount", h) >>]) :
                     h \in [1..n -> {0, 2}] } : n \in 1..StMaxBins }

StBand(range, mean, stddev, rat) ==
    [layerType |-> "athematic", min |-> Ptr(R(range[1])), max |-> Ptr(R(range[2])),
     mean |-> mean, stddev |-> stddev, rat |-> rat, vals |-> <<0>>]

\* the <<band, stretch>> pairs: each stretch mode with the bands whose
\* items it reads, and with a band lacking them; the stddev stretches with
\* factor 0, 1 and 2, the histogram stretches with four pairs of fractions
StCases ==
    { <<b, Stretch(VIEWER_MODE_GREYSCALE, m, R(0), R(0), 1, 0, 0)>> :
        b \in {BareBand} \cup { StBand(r, NULL, NULL, NULL) : r \in StRanges },
        m \in {VIEWER_STRETCHMODE_NONE, VIEWER_STRETCHMODE_LINEAR} }
    \cup
    { <<b, Stretch(VIEWER_MODE_GREYSCALE, VIEWER_STRETCHMODE_STDDEV, k, R(0), 1, 0, 0)>> :
        b \in {BareBand, StBand(<<0, 255>>, NULL, NULL, NULL)}
              \cup { StBand(r, Ptr(R(m)), Ptr(R(s)), NULL) :
                       r \in StRanges, m \in {1, 2, 100}, s \in {0, 1, 50} },
        k \in {R(0), R(1), R(2)} }
    \cup
    { <<StBand(r, NULL, NULL, t),
        Stretch(VIEWER_MODE_GREYSCALE, VIEWER_STRETCHMODE_HIST, f[1], f[2], 1, 0, 0)>> :
        r \in StRanges, t \in StTables,
        f \in { <<R(0), R(1)>>, <<Frac(1, 4), Frac(3, 4)>>,
                 <<Frac(1, 200), Frac(199, 200)>>, <<Frac(1, 2), Frac(1, 2)>> } }

InitStretch ==
    /\ \E c \in StCases, b \in StBuffers :
        /\ disk = [openable |-> TRUE, xsize |-> Len(b), ysize |-> 1,
                   gt |-> NorthUp(0, 0, 1), overviews |-> <<>>,
                   bands |-> << [c[1] EXCEPT !.vals = b] >>]
        /\ pCmdStretch = Ptr(c[2])
    /\ stretchList = <<>>
    /\ gdalfile = [ds |-> Ptr(disk), fullExtent |-> ZeroExtent, stretch |-> pCmdStretch]
    /\ dispExtent = ZeroExtent
    /\ im = NULL
    /\ szGDALMessages = ""
    /\ g = 0
    /\ ww = 1 /\ wh = 1
    /\ quit = FALSE /\ update = FALSE /\ status = 0
    /\ reload = FALSE /\ rezoom = FALSE
    /\ new_status = 0 /\ dither_algorithm = 0 /\ nEvents = 0
    /\ pc = "call"
    /\ info = NoInfo
    /\ io = NoIO
    /\ build = "x86"
    /\ heap \in HeapValues
    /\ geolink = NoGeolink

\* the float buffer holding the samples of a band, in order
SamplesOf(bandh) ==
    Filled([i \in 0..(Len(Deref(bandh).band.vals) - 1) |->
               R(Deref(bandh).band.vals[i + 1])])

\* do_stretch(pBuffer, bandh, size, stretch) as the readers call it; ret is
\* the buffer after the call
DoStretch ==
    /\ pc = "call"
    /\ \E bandh \in {GDALGetRasterBand(gdalfile.ds, Deref(gdalfile.stretch).bands[1])} :
        \E r \in {do_stretch(SamplesOf(bandh), bandh, Deref(gdalfile.stretch), heap)} :
            /\ io' = [io EXCEPT !.fn = "do_stretch",
                                !.result = IF r.ok THEN "ok" ELSE "failed",
                                !.ret = r.buf]
            /\ szGDALMessages' = IF r.ok THEN szGDALMessages ELSE r.msg
    /\ pc' = "returned"
    /\ UNCHANGED <<disk, geolink, stretchList, pCmdStretch, gdalfile, dispExtent, im,
                   g, ww, wh, info, build, heap>>
    /\ UNCHANGED loopVars

NextStretch == DoStretch

SpecStretch == InitStretch /\ [][NextStretch]_vars

(***************************************************************************)
(* Spec: a session of main.  pc is the position in the loop of main:       *)
(*   "top"     before the first caca_get_event of a turn                   *)
(*   "events"  in the inner loop, an event having been handled             *)
(*   "reload", "rezoom", "draw"  the three blocks after the events         *)
(*   "cleanup" after the loop; "exited"; "crashed" when the process died   *)
(***************************************************************************)
MaxEvents == 2        \* events handled in a session

ZOOM_IN_FACTOR == Frac(9, 10)
ZOOM_OUT_FACTOR == Frac(11, 10)
PAN_STEP == Frac(1, 5)

\* caca_get_dither_algorithm_list: the names, without their descriptions
algos == <<"none", "ordered2", "ordered4", "ordered8", "random", "fstein">>

\* pszDefaultStretchRules as stretch_from_string leaves them
DefaultRule(comp, value, ctband, mode, stretchmode, p1, bands) ==
    [comp |-> comp, value |-> value, ctband |-> ctband, mode |-> mode,
     stretchmode |-> stretchmode, stretchparam |-> <<p1, R(0)>>, bands |-> bands]

pszDefaultStretchRules ==
    << DefaultRule(VIEWER_COMP_EQ, 1, 1, VIEWER_MODE_COLORTABLE,
                   VIEWER_STRETCHMODE_NONE, R(0), <<1, 0, 0>>),
       DefaultRule(VIEWER_COMP_EQ, 1, -1, VIEWER_MODE_GREYSCALE,
                   VIEWER_STRETCHMODE_NONE, R(0), <<1, 0, 0>>),
       DefaultRule(VIEWER_COMP_EQ, 2, -1, VIEWER_MODE_GREYSCALE,
                   VIEWER_STRETCHMODE_NONE, R(0), <<1, 0, 0>>),
       DefaultRule(VIEWER_COMP_EQ, 3, -1, VIEWER_MODE_RGB,
                   VIEWER_STRETCHMODE_NONE, R(0), <<1, 2, 3>>),
       DefaultRule(VIEWER_COMP_LT, 6, -1, VIEWER_MODE_RGB,
                   VIEWER_STRETCHMODE_STDDEV, R(2), <<4, 3, 2>>),
       DefaultRule(VIEWER_COMP_GT, 5, -1, VIEWER_MODE_RGB,
                   VIEWER_STRETCHMODE_STDDEV, R(2), <<5, 4, 2>>) >>

\* the files, rule lists and command-line stretches of the sessions
GoodFile ==
    [openable |-> TRUE, xsize |-> 4, ysize |-> 4, gt |-> NorthUp(0, 0, 1),
     overviews |-> <<[xsize |-> 2, ysize |-> 2]>>,
     bands |-> <<PlainBand(<<10, 20, 30>>)>>]

Setup(file, rules, cmd, garbage) ==
    [disk |-> file, stretchList |-> rules, pCmdStretch |-> cmd, heap |-> garbage]

SessionSetups ==
    { Setup(GoodFile, pszDefaultStretchRules, NULL, 0),
      Setup([GoodFile EXCEPT !.openable = FALSE], pszDefaultStretchRules, NULL, 0),
      Setup([GoodFile EXCEPT !.gt = NULL], pszDefaultStretchRules, NULL, 0),
      Setup([GoodFile EXCEPT !.bands = <<BareBand>>], pszDefaultStretchRules, NULL, 0),
      Setup([GoodFile EXCEPT !.gt = Ptr(<<R(0), R(0), R(0), R(0), R(0), R(0)>>)],
            pszDefaultStretchRules, NULL, 0),
      Setup(GoodFile, <<pszDefaultStretchRules[4]>>, NULL, 0),
      Setup(GoodFile, pszDefaultStretchRules,
            Ptr(Stretch(VIEWER_MODE_GREYSCALE, VIEWER_STRETCHMODE_HIST,
                        R(0), R(1), 1, 0, 0)), 0),
      Setup(GoodFile, pszDefaultStretchRules,
            Ptr(Stretch(VIEWER_MODE_COLORTABLE, VIEWER_STRETCHMODE_NONE,
                        R(0), R(0), 1, 0, 0)), 0),
      Setup(GoodFile, pszDefaultStretchRules,
            Ptr(Stretch(VIEWER_MODE_GREYSCALE, VIEWER_STRETCHMODE_LINEAR,
                        R(0), R(0), 1, 0, 0)), 0) }
    \cup { Setup([GoodFile EXCEPT !.bands = <<ClassBand>>],
                 pszDefaultStretchRules, NULL, garbage) : garbage \in HeapValues }

\* canvas sizes <<ww, wh>>: the first is the size at start, any is the size
\* a resize event reports
SessionCanvases == <<<<1, 1>>, <<2, 1>>>>

Init ==
    /\ \E s \in SessionSetups :
        /\ disk = s.disk
        /\ stretchList = s.stretchList
        /\ pCmdStretch = s.pCmdStretch
        /\ heap = s.heap
    /\ gdalfile = [ds |-> NULL, fullExtent |-> ZeroExtent, stretch |-> NULL]
    /\ dispExtent = ZeroExtent
    /\ im = NULL
    /\ szGDALMessages = ""
    /\ g = 0
    /\ ww = SessionCanvases[1][1] /\ wh = SessionCanvases[1][2]
    /\ quit = FALSE /\ update = TRUE /\ status = 0
    /\ reload = TRUE /\ rezoom = FALSE
    /\ new_status = 0 /\ dither_algorithm = 0 /\ nEvents = 0
    /\ pc = "top"
    /\ info = NoInfo
    /\ io = NoIO
    /\ build \in Builds
    /\ geolink = NoGeolink

\* an event is taken off the queue: by the first caca_get_event of the turn
\* or by the one that ends the inner loop
EventArrives == pc \in {"top", "events"} /\ nEvents < MaxEvents

\* lines 1829-1835: the end of the inner loop's body
Handled(ns) ==
    /\ new_status' = ns
    /\ status' = IF status # 0 \/ ns # 0 THEN ns ELSE status
    /\ nEvents' = nEvents + 1
    /\ pc' = "events"

Crash ==
    /\ pc' = "crashed"
    /\ io' = [io EXCEPT !.result = "crashed"]
    /\ UNCHANGED <<disk, geolink, stretchList, pCmdStretch, gdalfile, dispExtent, im,
                   szGDALMessages, g, ww, wh, info, build, heap>>
    /\ UNCHANGED loopVars

\* caca_set_dither_algorithm(im->dither, algos[dither_algorithm * 2])
SetDitherAlgorithm(image, a) ==
    Ptr([Deref(image) EXCEPT !.dither = Ptr([Deref(@) EXCEPT !.algorithm = a])])

\* keys 'd' and 'D': im->dither is read whether or not an image is loaded
KeyDither(next) ==
    /\ EventArrives
    /\ IF im = NULL THEN Crash
       ELSE /\ dither_algorithm' = next
            /\ im' = SetDitherAlgorithm(im, next)
            /\ update' = TRUE
            /\ Handled(STATUS_DITHERING)
            /\ UNCHANGED <<disk, geolink, stretchList, pCmdStretch, gdalfile, dispExtent,
                           szGDALMessages, g, ww, wh, quit, reload, rezoom,
                           info, io, build, heap>>

KeyNextDither ==
    KeyDither(IF dither_algorithm + 1 = Len(algos) THEN 0 ELSE dither_algorithm + 1)

KeyPrevDither ==
    KeyDither(IF dither_algorithm - 1 < 0 THEN Len(algos) - 1 ELSE dither_algorithm - 1)

\* keys '+' and '-': dispExtent.dMetersPerCell *= ZOOM_IN_FACTOR / ZOOM_OUT_FACTOR
ZoomedIn(extent) == [extent EXCEPT !.dMetersPerCell = RMul(@, ZOOM_IN_FACTOR)]
ZoomedOut(extent) == [extent EXCEPT !.dMetersPerCell = RMul(@, ZOOM_OUT_FACTOR)]

\* keys 'k', 'j', 'h', 'l' (and the arrows): the centre moves by PAN_STEP of
\* the canvas
PanKeys == {"k", "j", "h", "l"}
Panned(extent, key, cw, ch) ==
    LET dy == RMul(RMul(R(ch), PAN_STEP), extent.dMetersPerCell)
        dx == RMul(RMul(R(cw), PAN_STEP), extent.dMetersPerCell)
    IN  CASE key = "k" -> [extent EXCEPT !.dCentreY = RAdd(@, dy)]
          [] key = "j" -> [extent EXCEPT !.dCentreY = RSub(@, dy)]
          [] key = "h" -> [extent EXCEPT !.dCentreX = RSub(@, dx)]
          [] key = "l" -> [extent EXCEPT !.dCentreX = RAdd(@, dx)]

\* the keys that move the view do so only while no rezoom is pending
MoveView(extent, newGamma) ==
    /\ EventArrives
    /\ IF rezoom
       THEN UNCHANGED <<dispExtent, update, rezoom, g, im>>
       ELSE /\ dispExtent' = extent
            /\ update' = TRUE
            /\ rezoom' = TRUE
            /\ g' = newGamma[1]
            /\ im' = newGamma[2]
    /\ Handled(new_status)
    /\ UNCHANGED <<disk, geolink, stretchList, pCmdStretch, gdalfile, szGDALMessages,
                   ww, wh, quit, reload, dither_algorithm, info, io, build, heap>>

KeyZoomIn == MoveView(ZoomedIn(dispExtent), <<g, im>>)

KeyZoomOut == MoveView(ZoomedOut(dispExtent), <<g, im>>)

KeyFullExtent == MoveView(gdalfile.fullExtent, set_gamma(0, g, im))

KeyPan ==
    \E key \in PanKeys : MoveView(Panned(dispExtent, key, ww, wh), <<g, im>>)

\* keys 'G' and 'g'
KeyGamma ==
    /\ EventArrives
    /\ \E step \in {1, -1} :
        /\ g' = set_gamma(g + step, g, im)[1]
        /\ im' = set_gamma(g + step, g, im)[2]
    /\ update' = TRUE
    /\ Handled(new_status)
    /\ UNCHANGED <<disk, geolink, stretchList, pCmdStretch, gdalfile, dispExtent,
                   szGDALMessages, ww, wh, quit, reload, rezoom, dither_algorithm,
                   info, io, build, heap>>

\* key '?': only the help overlay and update change
KeyHelp ==
    /\ EventArrives
    /\ update' = TRUE
    /\ Handled(new_status)
    /\ UNCHANGED <<disk, geolink, stretchList, pCmdStretch, gdalfile, dispExtent, im,
                   szGDALMessages, g, ww, wh, quit, reload, rezoom, dither_algorithm,
                   info, io, build, heap>>

\* keys 'q', 'Q', escape, and CACA_EVENT_QUIT
Quit ==
    /\ EventArrives
    /\ quit' = TRUE
    /\ Handled(new_status)
    /\ UNCHANGED <<disk, geolink, stretchList, pCmdStretch, gdalfile, dispExtent, im,
                   szGDALMessages, g, ww, wh, update, reload, rezoom,
                   dither_algorithm, info, io, build, heap>>

\* CACA_EVENT_RESIZE
Resize ==
    /\ EventArrives
    /\ \E c \in 1..Len(SessionCanvases) :
        ww' = SessionCanvases[c][1] /\ wh' = SessionCanvases[c][2]
    /\ update' = TRUE
    /\ rezoom' = TRUE
    /\ Handled(new_status)
    /\ UNCHANGED <<disk, geolink, stretchList, pCmdStretch, gdalfile, dispExtent, im,
                   szGDALMessages, g, quit, reload, dither_algorithm,
                   info, io, build, heap>>

\* caca_get_event returns 0: at once when update is set, else only after it
\* has delivered an event
NoEvent ==
    /\ pc = "events" \/ (pc = "top" /\ update)
    /\ pc' = "reload"
    /\ UNCHANGED <<disk, geolink, stretchList, pCmdStretch, gdalfile, dispExtent, im,
                   szGDALMessages, g, ww, wh, info, io, build, heap>>
    /\ UNCHANGED loopVars

\* gdal_unload_image(im); im = NULL, when an image is loaded
Unloaded(image, msg) == IF image # NULL THEN "" ELSE msg

\* lines 1856-1872: what the reload block leaves,
\*   [im, msg, file, extent, crashed, info, io]
ReloadOutcome(fault) ==
    With(IF gdalfile.ds # NULL THEN gdal_close_file(gdalfile) ELSE gdalfile,
      LAMBDA closed :
        With(gdal_open_file(disk, closed, stretchList, pCmdStretch, ww, wh),
          LAMBDA o :
            IF ~o.ok
            THEN [im |-> NULL, msg |-> o.msg, file |-> o.file, extent |-> dispExtent,
                  crashed |-> FALSE, info |-> info,
                  io |-> [fn |-> "gdal_open_file", dsOpen |-> FALSE,
                          stretchSet |-> closed.stretch # NULL, hadImage |-> im # NULL,
                          rule |-> o.rule, reads |-> <<>>, overflow |-> FALSE,
                          result |-> "failed", ret |-> NULL]]
            ELSE
            With(gdal_load_image(o.file, o.file.fullExtent, ww, wh, build, heap, fault),
              LAMBDA r :
                [im |-> r.im, msg |-> r.msg, file |-> r.file,
                 extent |-> o.file.fullExtent, crashed |-> r.crashed,
                 info |-> r.info,
                 io |-> [fn |-> "gdal_load_image", dsOpen |-> TRUE,
                         stretchSet |-> TRUE, hadImage |-> im # NULL,
                         rule |-> o.rule, reads |-> r.reads,
                         overflow |-> r.overflow,
                         result |-> IF r.crashed THEN "crashed"
                                    ELSE IF r.im = NULL THEN "failed" ELSE "image",
                      ret |-> NULL]])))

\* if(reload) { ... } (lines 1838-1882)
ReloadStep ==
    /\ pc = "reload"
    /\ IF ~reload
       THEN /\ pc' = "rezoom"
            /\ UNCHANGED <<gdalfile, dispExtent, im, szGDALMessages, g, info, io,
                           update, reload, rezoom>>
       ELSE \E fault \in Faults : \E x \in {ReloadOutcome(fault)} :
            /\ gdalfile' = x.file
            /\ dispExtent' = x.extent
            /\ szGDALMessages' = x.msg
            /\ info' = x.info
            /\ io' = x.io
            /\ IF x.crashed
               THEN /\ pc' = "crashed"
                    /\ im' = NULL
                    /\ UNCHANGED <<g, update, reload, rezoom>>
               ELSE /\ pc' = "rezoom"
                    /\ reload' = FALSE
                    /\ rezoom' = FALSE
                    /\ update' = TRUE
                    /\ g' = set_gamma(0, g, x.im)[1]
                    /\ im' = set_gamma(0, g, x.im)[2]
    /\ UNCHANGED <<disk, geolink, stretchList, pCmdStretch, ww, wh, quit, status,
                   new_status, dither_algorithm, nEvents, build, heap>>

\* "%f": a double printed with six decimals
PrintF(x) == Frac(RoundHalfAway(RMul(x, R(1000000))), 1000000)

\* the process identifiers: getpid() of this viewer and of another one
getpid == 1
OtherPid == 2

\* lines 1894-1910: the file after a viewer with the given pid wrote its
\* extent ("%llu %f %f %f\n")
GeolinkWritten(link, pid, extent) ==
    IF link.pszGeolinkFile = NULL THEN link
    ELSE [link EXCEPT !.exists = TRUE,
                      !.text = << [pid |-> pid,
                                   dX |-> PrintF(extent.dCentreX),
                                   dY |-> PrintF(extent.dCentreY),
                                   dMetersPerCell |-> PrintF(extent.dMetersPerCell)] >>]

\* if(rezoom) { ... } (lines 1884-1913)
RezoomStep ==
    /\ pc = "rezoom"
    /\ IF ~rezoom
       THEN /\ pc' = "draw"
            /\ UNCHANGED <<gdalfile, im, szGDALMessages, info, io, rezoom, geolink>>
       ELSE \E fault \in Faults :
            \E r \in {gdal_load_image(gdalfile, dispExtent, ww, wh, build, heap, fault)} :
            /\ gdalfile' = r.file
            /\ im' = r.im
            /\ szGDALMessages' = r.msg
            /\ info' = r.info
            /\ io' = [fn |-> "gdal_load_image", dsOpen |-> gdalfile.ds # NULL,
                      stretchSet |-> gdalfile.stretch # NULL,
                      hadImage |-> im # NULL, rule |-> io.rule,
                      reads |-> r.reads, overflow |-> r.overflow,
                      result |-> IF r.crashed THEN "crashed"
                                 ELSE IF r.im = NULL THEN "failed" ELSE "image",
                      ret |-> NULL]
            /\ IF r.crashed
               THEN pc' = "crashed" /\ UNCHANGED <<rezoom, geolink>>
               ELSE /\ pc' = "draw"
                    /\ rezoom' = FALSE
                    /\ geolink' = GeolinkWritten(geolink, getpid, dispExtent)
    /\ UNCHANGED <<disk, stretchList, pCmdStretch, dispExtent, g, ww, wh, quit,
                   update, status, reload, new_status, dither_algorithm, nEvents,
                   build, heap>>

\* lines 1915-1965: the error text or the image, the status line (which
\* reads im->dither when status is STATUS_DITHERING), update = 0; then the
\* loop test, and new_status = 0 at the top of the next turn
Draw ==
    /\ pc = "draw"
    /\ IF status = STATUS_DITHERING /\ im = NULL
       THEN Crash
       ELSE /\ update' = FALSE
            /\ new_status' = 0
            /\ pc' = IF quit THEN "cleanup" ELSE "top"
            /\ UNCHANGED <<disk, geolink, stretchList, pCmdStretch, gdalfile, dispExtent, im,
                           szGDALMessages, g, ww, wh, quit, status, reload, rezoom,
                           dither_algorithm, nEvents, info, io, build, heap>>

\* lines 1968-1980
Cleanup ==
    /\ pc = "cleanup"
    /\ szGDALMessages' = Unloaded(im, szGDALMessages)
    /\ im' = NULL
    /\ gdalfile' = IF gdalfile.ds # NULL THEN gdal_close_file(gdalfile) ELSE gdalfile
    /\ pc' = "exited"
    /\ UNCHANGED <<disk, geolink, stretchList, pCmdStretch, dispExtent, g, ww, wh,
                   info, io, build, heap>>
    /\ UNCHANGED loopVars

Next ==
    \/ KeyNextDither \/ KeyPrevDither
    \/ KeyZoomIn \/ KeyZoomOut \/ KeyFullExtent \/ KeyPan
    \/ KeyGamma \/ KeyHelp \/ Quit \/ Resize
    \/ NoEvent
    \/ ReloadStep \/ RezoomStep \/ Draw \/ Cleanup

Spec == Init /\ [][Next]_vars

(***************************************************************************)
(* SpecZoom: the views that zoom and pan keys reach from the full extent   *)
(* of a file, each one mapped by prepare_for_reading as the rezoom block   *)
(* does.  pc is "call" while a render is due, "returned" when main waits   *)
(* for the next key.                                                       *)
(***************************************************************************)
ZoomMaxKeys == 7      \* keys pressed
ZoomMaxPanKeys == 2   \* a pan key is one of the first ZoomMaxPanKeys keys

\* a raster of one pixel
ZoomFile ==
    [openable |-> TRUE, xsize |-> 1, ysize |-> 1, gt |-> NorthUp(0, 0, 1),
     overviews |-> <<>>,
     bands |-> <<PlainBand(<<10>>)>>]

\* the file is open and its full extent is about to be rendered
InitZoom ==
    /\ disk = ZoomFile
    /\ stretchList = pszDefaultStretchRules
    /\ pCmdStretch = NULL
    /\ \E c \in 1..Len(SessionCanvases) :
        /\ ww = SessionCanvases[c][1] /\ wh = SessionCanvases[c][2]
        /\ gdalfile = gdal_open_file(disk, [ds |-> NULL, fullExtent |-> ZeroExtent,
                                            stretch |-> NULL],
                                     stretchList, pCmdStretch, ww, wh).file
    /\ dispExtent = gdalfile.fullExtent
    /\ im = NULL
    /\ szGDALMessages = ""
    /\ g = 0
    /\ quit = FALSE /\ update = TRUE /\ status = 0
    /\ reload = FALSE /\ rezoom = TRUE
    /\ new_status = 0 /\ dither_algorithm = 0 /\ nEvents = 0
    /\ pc = "call"
    /\ info = NoInfo
    /\ io = NoIO
    /\ build \in Builds
    /\ heap = 0
    /\ geolink = NoGeolink

\* a key that moves the view, pressed while no rezoom is pending: the
\* rezoom block then renders the new view
ViewKey(extent, limit) ==
    /\ pc = "returned"
    /\ nEvents < limit
    /\ dispExtent' = extent
    /\ update' = TRUE
    /\ rezoom' = TRUE
    /\ nEvents' = nEvents + 1
    /\ pc' = "call"
    /\ UNCHANGED <<disk, geolink, stretchList, pCmdStretch, gdalfile, im, szGDALMessages,
                   g, ww, wh, quit, status, reload, new_status, dither_algorithm,
                   info, io, build, heap>>

ZoomInKey == ViewKey(ZoomedIn(dispExtent), ZoomMaxKeys)
ZoomOutKey == ViewKey(ZoomedOut(dispExtent), ZoomMaxKeys)
PanKey ==
    \E key \in PanKeys : ViewKey(Panned(dispExtent, key, ww, wh), ZoomMaxPanKeys)

NextZoom == ZoomInKey \/ ZoomOutKey \/ PanKey \/ PrepareForReading

SpecZoom == InitZoom /\ [][NextZoom]_vars

(***************************************************************************)
(* SpecGeolink: a session with --geolink.  This viewer idles in its loop   *)
(* and polls the file; another viewer writes its extents to the file.      *)
(***************************************************************************)
\* the extents the other viewer displays
GeolinkExtents ==
    { [dCentreX |-> R(x), dCentreY |-> R(y), dMetersPerCell |-> R(m)] :
        x \in {2, 3}, y \in {-2, -1}, m \in {4, 2} }

\* what fscanf leaves in pid, dX, dY, dMetersPerCell when the file holds no
\* record: the locals are not initialised
UnreadRecords ==
    { [pid |-> p, dX |-> e.dCentreX, dY |-> e.dCentreY,
       dMetersPerCell |-> e.dMetersPerCell] :
        p \in {getpid, OtherPid}, e \in GeolinkExtents }

InitGeolink ==
    /\ disk = GoodFile
    /\ stretchList = pszDefaultStretchRules
    /\ pCmdStretch = Ptr(Stretch(VIEWER_MODE_GREYSCALE, VIEWER_STRETCHMODE_LINEAR,
                                 R(0), R(0), 1, 0, 0))
    /\ heap = 0
    /\ gdalfile = [ds |-> NULL, fullExtent |-> ZeroExtent, stretch |-> NULL]
    /\ dispExtent = ZeroExtent
    /\ im = NULL
    /\ szGDALMessages = ""
    /\ g = 0
    /\ ww = SessionCanvases[1][1] /\ wh = SessionCanvases[1][2]
    /\ quit = FALSE /\ update = TRUE /\ status = 0
    /\ reload = TRUE /\ rezoom = FALSE
    /\ new_status = 0 /\ dither_algorithm = 0 /\ nEvents = 0
    /\ pc = "top"
    /\ info = NoInfo
    /\ io = NoIO
    /\ build \in Builds
    /\ geolink = [NoGeolink EXCEPT !.pszGeolinkFile = Ptr("geolink")]

\* the record fscanf reads from the file (line 1683)
RecordsRead(link) == IF link.text = <<>> THEN UnreadRecords ELSE {link.text[1]}

\* lines 1666-1699: no event within GEOLINK_TIMEOUT; the file is read and
\* its extent taken over
GeolinkPoll ==
    /\ pc = "top"
    /\ ~update
    /\ geolink.pszGeolinkFile # NULL
    /\ IF ~geolink.exists
       THEN UNCHANGED <<dispExtent, rezoom, update>>
       ELSE \E rec \in RecordsRead(geolink) :
            IF /\ getpid # rec.pid
               /\ rec.dX # dispExtent.dCentreX
               /\ rec.dY # dispExtent.dCentreY
               /\ rec.dMetersPerCell # dispExtent.dMetersPerCell
            THEN /\ dispExtent' = [dCentreX |-> rec.dX, dCentreY |-> rec.dY,
                                   dMetersPerCell |-> rec.dMetersPerCell]
                 /\ rezoom' = TRUE
                 /\ update' = TRUE
            ELSE UNCHANGED <<dispExtent, rezoom, update>>
    /\ pc' = "reload"
    /\ UNCHANGED <<disk, geolink, stretchList, pCmdStretch, gdalfile, im,
                   szGDALMessages, g, ww, wh, quit, status, reload, new_status,
                   dither_algorithm, nEvents, info, io, build, heap>>

\* the rezoom block of the other viewer: fopen(pszGeolinkFile, "w")
\* empties the file (line 1897) ...
OtherOpens ==
    /\ geolink.pszGeolinkFile # NULL
    /\ ~geolink.writing
    /\ pc \notin {"crashed", "exited"}
    /\ geolink' = [geolink EXCEPT !.exists = TRUE, !.text = <<>>, !.writing = TRUE]
    /\ UNCHANGED <<disk, stretchList, pCmdStretch, gdalfile, dispExtent, im,
                   szGDALMessages, g, ww, wh, pc, info, io, build, heap>>
    /\ UNCHANGED loopVars

\* ... and fprintf and fclose put its record there (lines 1906-1908)
OtherWrites ==
    /\ geolink.writing
    /\ \E e \in GeolinkExtents :
        geolink' = [GeolinkWritten(geolink, OtherPid, e) EXCEPT !.writing = FALSE]
    /\ UNCHANGED <<disk, stretchList, pCmdStretch, gdalfile, dispExtent, im,
                   szGDALMessages, g, ww, wh, pc, info, io, build, heap>>
    /\ UNCHANGED loopVars

NextGeolink ==
    \/ GeolinkPoll \/ OtherOpens \/ OtherWrites
    \/ NoEvent \/ ReloadStep \/ RezoomStep \/ Draw

SpecGeolink == InitGeolink /\ [][NextGeolink]_vars

(***************************************************************************)
(* Window mapper: claims C5, C6, C7, C9 (checked under SpecWin).           *)
(***************************************************************************)
Mapped == pc = "returned" /\ io.fn = "prepare_for_reading" /\ io.result = "ok"

\* the view and the raster level overlap / the view lies inside the level
ViewOverlaps ==
    /\ RLt(info.x1, R(info.width)) /\ RLt(R(0), info.x2)
    /\ RLt(info.y1, R(info.height)) /\ RLt(R(0), info.y2)
InLevelX(x) == RLe(R(0), x) /\ RLt(x, R(info.width))
InLevelY(y) == RLe(R(0), y) /\ RLt(y, R(info.height))
ViewInside ==
    /\ InLevelX(info.x1) /\ InLevelX(info.x2)
    /\ InLevelY(info.y1) /\ InLevelY(info.y2)

\* C5: for every view extent and level the source window has nXSize >= 0
\* and nYSize >= 0.
C5_SourceSizeNeverNegative ==
    Mapped => info.nXSize >= 0 /\ info.nYSize >= 0

\* C6: the source window never exceeds the level: nXSize <= width and
\* nYSize <= height, and when the view overlaps the dataset
\* nXOff + nXSize <= width and nYOff + nYSize <= height.
C6_SourceWithinLevel ==
    Mapped =>
        /\ info.nXSize <= info.width
        /\ info.nYSize <= info.height
        /\ ViewOverlaps =>
            /\ info.nXOff + info.nXSize <= info.width
            /\ info.nYOff + info.nYSize <= info.height

\* C6 witness: a view that overlaps the level and sticks out to the right
\* and below, so that both high coordinates were clipped
C6_Witness ==
    /\ Mapped /\ ViewOverlaps
    /\ RLe(R(info.width), info.x2) /\ RLe(R(info.height), info.y2)
    /\ info.nXSize > 0 /\ info.nYSize > 0

\* C7: the usable destination size does not exceed the image buffer:
\* nBufXSize <= destWidth and nBufYSize <= destHeight.
C7_UsableWithinBuffer ==
    Mapped => info.nBufXSize <= info.dataWidth /\ info.nBufYSize <= info.dataHeight

\* C9: for a view fully inside the dataset the usable destination is the
\* whole buffer and the destination offset is 0.
C9_InsideUsesWholeBuffer ==
    (Mapped /\ ViewInside) =>
        /\ info.nBufXSize = info.dataWidth
        /\ info.nBufYSize = info.dataHeight
        /\ info.nDataOffset = 0

(***************************************************************************)
(* Render: claims C8, C10 (checked under SpecRender).                      *)
(***************************************************************************)
\* gdal_load_image has returned and its window mapper had succeeded
Rendered ==
    pc = "returned" /\ io.fn = "gdal_load_image" /\ info.dataWidth > 0

\* the view lies wholly left, right, above or below the level
ViewOutsideLevel ==
    \/ RLe(info.x2, R(0)) \/ RLe(R(info.width), info.x1)
    \/ RLe(info.y2, R(0)) \/ RLe(R(info.height), info.y1)

\* C8: for a view wholly outside the dataset the window mapper yields
\* sourceWidth = 0 or sourceHeight = 0 and the render makes no read call.
C8_OutsideReadsNothing ==
    (Rendered /\ ViewOutsideLevel) =>
        /\ info.nXSize = 0 \/ info.nYSize = 0
        /\ io.reads = <<>>

\* sample p of the image lies in the usable destination rectangle
InUsable(p) ==
    LET col == (p % info.dataWidth) - (info.nDataOffset % info.dataWidth)
        row == (p \div info.dataWidth) - (info.nDataOffset \div info.dataWidth)
    IN  /\ col >= 0 /\ col < info.nBufXSize
        /\ row >= 0 /\ row < info.nBufYSize

\* C10: after a successful render of a view partly outside the dataset,
\* every pixel outside the usable destination rectangle is zero in all
\* three channels.
C10_MarginIsZero ==
    (Rendered /\ io.result = "image" /\ ViewOverlaps /\ ~ViewInside) =>
        \A p \in 0..(info.dataWidth * info.dataHeight - 1) :
            InUsable(p) \/ \A ch \in 0..(IMG_DEPTH - 1) :
                               Deref(im).pixels[IMG_DEPTH * p + ch] = 0

(***************************************************************************)
(* Matcher: claims C3, C4 (checked under SpecMatch).                       *)
(***************************************************************************)
MatcherReturned == pc = "returned" /\ io.fn = "get_stretch_for_gdal"

\* the band-count comparison a rule states
ComparatorHolds(rule) ==
    \/ rule.comp = VIEWER_COMP_LT /\ Len(disk.bands) < rule.value
    \/ rule.comp = VIEWER_COMP_GT /\ Len(disk.bands) > rule.value
    \/ rule.comp = VIEWER_COMP_EQ /\ Len(disk.bands) = rule.value

\* band b exists, is tagged thematic and its attribute table has columns
\* of all four usages Red, Green, Blue and Alpha
HasColourTable(b) ==
    /\ b \in 1..Len(disk.bands)
    /\ disk.bands[b].layerType = "thematic"
    /\ disk.bands[b].rat # NULL
    /\ \A u \in {"Red", "Green", "Blue", "Alpha"} :
          \E c \in 1..Len(disk.bands[b].rat[1].cols) :
              disk.bands[b].rat[1].cols[c].usage = u

\* a rule matches fully: its comparator and its colour-table condition hold
FullMatch(rule) ==
    ComparatorHolds(rule) /\ (rule.ctband = -1 \/ HasColourTable(rule.ctband))

\* C3: a rule with a colour-table band is returned only when that band is
\* thematic and has Red, Green, Blue and Alpha columns; otherwise it is a
\* non-match.
C3_ColourTableRuleNeedsTable ==
    (MatcherReturned /\ io.rule # 0 /\ stretchList[io.rule].ctband # -1) =>
        HasColourTable(stretchList[io.rule].ctband)

\* C4: first match wins: at most one rule is returned, its comparator
\* holds, no earlier rule matches fully, and a rule is returned whenever
\* some rule matches fully.
C4_FirstMatchWins ==
    MatcherReturned =>
        /\ io.rule \in 0..Len(stretchList)
        /\ gdalfile.stretch = IF io.rule = 0 THEN NULL ELSE <<stretchList[io.rule]>>
        /\ io.rule # 0 =>
            /\ ComparatorHolds(stretchList[io.rule])
            /\ \A j \in 1..(io.rule - 1) : ~FullMatch(stretchList[j])
        /\ (\E j \in 1..Len(stretchList) : FullMatch(stretchList[j])) => io.rule # 0

\* C4 witness: a single-band thematic dataset with a complete table selects
\* the colour-table rule placed before a greyscale rule that also fits
C4_Witness ==
    /\ MatcherReturned /\ io.rule = 1 /\ Len(stretchList) = 2
    /\ Len(disk.bands) = 1
    /\ stretchList[1].ctband = 1 /\ FullMatch(stretchList[1])
    /\ stretchList[2].ctband = -1 /\ FullMatch(stretchList[2])
    /\ gdalfile.stretch[1].mode = VIEWER_MODE_COLORTABLE

(***************************************************************************)
(* Session: claims C1, C2 (checked under Spec).                            *)
(***************************************************************************)
\* C1: every render (gdal_load_image) runs against a dataset handle that
\* is still open and a non-NULL stretch; it is never invoked on a session
\* whose handle was released by a failed open or a failed earlier render.
C1_RenderOnOpenHandle ==
    io.fn = "gdal_load_image" => io.dsOpen /\ io.stretchSet

\* C2: whenever opening the file or rendering fails, the caller is left
\* with no image (im = NULL) and szGDALMessages holds a non-empty message.
C2_FailureLeavesMessage ==
    io.result = "failed" => im = NULL /\ szGDALMessages # ""

\* C2 witness: a render on an open handle failed after an image had been
\* shown, and the session went on to draw the error text
C2_Witness ==
    /\ io.fn = "gdal_load_image" /\ io.result = "failed"
    /\ io.dsOpen /\ io.hadImage
    /\ pc = "top"

(***************************************************************************)
(* Overview selector: claims C11, C12 (checked under SpecOverview).        *)
(***************************************************************************)
OverviewReturned == pc = "returned" /\ io.fn = "gdal_get_best_overview"

\* pixelsPerCell of level k (0: full resolution, k: overview k - 1), the
\* reduction factor being the integer ratio of the widths
LevelDensity(k) ==
    RDiv(dispExtent.dMetersPerCell,
         RMul(disk.gt[1][2],
              R(IF k = 0 THEN 1 ELSE disk.xsize \div disk.overviews[k].xsize)))

ExceedsTarget(k) == RLt(R(PIX_PER_CELL), LevelDensity(k))

\* C11: the selector returns the level whose pixelsPerCell is the smallest
\* value strictly greater than PIX_PER_CELL; it never returns an overview
\* at or below the target, and returns level 0 when no overview exceeds
\* the target or when there are no overviews.
C11_SmallestDensityAboveTarget ==
    (OverviewReturned /\ disk.gt # NULL) =>
        /\ io.ret \in 0..Len(disk.overviews)
        /\ io.ret # 0 => ExceedsTarget(io.ret)
        /\ \A k \in 0..Len(disk.overviews) :
              ExceedsTarget(k) =>
                  /\ ExceedsTarget(io.ret)
                  /\ RLe(LevelDensity(io.ret), LevelDensity(k))
        /\ (\A k \in 1..Len(disk.overviews) : ~ExceedsTarget(k)) => io.ret = 0

\* C11 witness: full resolution and two overviews exceed the target, a
\* later overview has the smallest density above it, and it is returned
C11_Witness ==
    /\ OverviewReturned /\ disk.gt # NULL
    /\ Len(disk.overviews) = 2 /\ io.ret = 2
    /\ ExceedsTarget(0) /\ ExceedsTarget(1)
    /\ RLt(LevelDensity(2), LevelDensity(1))

StretchReturned == pc = "returned" /\ io.fn = "do_stretch"
TheStretch == Deref(gdalfile.stretch)
TheBand == disk.bands[1]
\* sample i of the buffer before the call
RawSample(i) == R(TheBand.vals[i + 1])
HasRange == TheBand.min # NULL /\ TheBand.max # NULL

\* clamp(0, 255, (v - lo) * 255 / (hi - lo)) for lo < hi
ScaledBy255(v, lo, hi) ==
    Clamp255(RDiv(RMul(RSub(v, lo), R(255)), RSub(hi, lo)))

\* C13: a linear stretch on a band with minimum < maximum turns every
\* sample v into clamp(0, 255, (v - min) * 255 / (max - min)).
C13_LinearScalesBy255 ==
    (/\ StretchReturned
     /\ TheStretch.stretchmode = VIEWER_STRETCHMODE_LINEAR
     /\ HasRange
     /\ RLt(Deref(TheBand.min), Deref(TheBand.max)))
    => /\ io.result = "ok"
       /\ \A i \in DOMAIN io.ret :
            io.ret[i] = ScaledBy255(RawSample(i), Deref(TheBand.min), Deref(TheBand.max))

\* C14: stretch mode None succeeds and leaves every sample as it was,
\* whether or not the band carries statistics.
C14_NoneNeedsNoStatistics ==
    (StretchReturned /\ TheStretch.stretchmode = VIEWER_STRETCHMODE_NONE)
    => /\ io.result = "ok"
       /\ \A i \in DOMAIN io.ret : io.ret[i] = RawSample(i)

\* a sample that is a number between 0 and 255
InByteRange(v) == v.d # 0 /\ RLe(R(0), v) /\ RLe(v, R(255))

\* C15: a standard-deviation stretch that succeeds turns a sample 0 into 0
\* and leaves every sample between 0 and 255.
C15_StdDevZeroAndRange ==
    (/\ StretchReturned
     /\ TheStretch.stretchmode = VIEWER_STRETCHMODE_STDDEV
     /\ io.result = "ok")
    => \A i \in DOMAIN io.ret :
          /\ IsZero(RawSample(i)) => io.ret[i] = R(0)
          /\ InByteRange(io.ret[i])

\* a histogram stretch that found its histogram
HistStretched ==
    /\ StretchReturned
    /\ TheStretch.stretchmode = VIEWER_STRETCHMODE_HIST
    /\ io.result = "ok"
TheTable == Deref(TheBand.rat)
\* <<dStretchMin, dStretchMax>> of the call
DerivedBounds ==
    HistBounds(Deref(LastColumn(TheTable.cols, "PixelCount", Len(TheTable.cols))),
               TheTable.rows, TheStretch.stretchparam,
               Deref(TheBand.min), Deref(TheBand.max), heap)

\* C16: in a histogram stretch of a band with min <= max the derived bounds
\* satisfy stretchMin <= stretchMax, and with the fractions 0 and 1 they are
\* min and max.
C16_HistBoundsOrdered ==
    (HistStretched /\ RLe(Deref(TheBand.min), Deref(TheBand.max)))
    => /\ RLe(DerivedBounds[1], DerivedBounds[2])
       /\ TheStretch.stretchparam = <<R(0), R(1)>>
            => DerivedBounds = <<Deref(TheBand.min), Deref(TheBand.max)>>

TheHisto == Deref(LastColumn(TheTable.cols, "PixelCount", Len(TheTable.cols)))
\* the first bin (from 0) at which the count summed from bin 0 exceeds
\* limit, or nbins when no bin does
RECURSIVE FirstBinAbove(_, _, _)
FirstBinAbove(n, sum, limit) ==
    IF n >= TheTable.rows THEN TheTable.rows
    ELSE IF RLt(limit, R(sum + TheHisto[n + 1])) THEN n
    ELSE FirstBinAbove(n + 1, sum + TheHisto[n + 1], limit)
LowerBin ==
    FirstBinAbove(0, 0, RMul(R(SumHisto(TheHisto, TheTable.rows)),
                             TheStretch.stretchparam[1]))

\* C17: when the count summed from the bottom first exceeds
\* total * stretchparam[0] at bin n, stretchMin is
\* min + (max - min) * n / nbins, stretchMax lies in [min, max], and every
\* sample is rescaled linearly between the two bounds.
C17_HistBoundsInterpolated ==
    (HistStretched /\ LowerBin < TheTable.rows)
    => /\ DerivedBounds[1] =
            RAdd(Deref(TheBand.min),
                 RDiv(RMul(RSub(Deref(TheBand.max), Deref(TheBand.min)), R(LowerBin)),
                      R(TheTable.rows)))
       /\ RLe(Deref(TheBand.min), DerivedBounds[2])
       /\ RLe(DerivedBounds[2], Deref(TheBand.max))
       /\ RLt(DerivedBounds[1], DerivedBounds[2])
            => \A i \in DOMAIN io.ret :
                  io.ret[i] = ScaledBy255(RawSample(i), DerivedBounds[1], DerivedBounds[2])

(***************************************************************************)
(* Claims about the readers, under SpecRender.                             *)
(***************************************************************************)
\* the level of band b that the render read
LevelRead(b) ==
    LevelOf(GDALGetRasterBand(gdalfile.ds, b),
            gdal_get_best_overview(gdalfile.ds, dispExtent))
\* the samples of band b in the window of the render: the buffer a
\* successful read of that window leaves, zero outside the usable rectangle
WindowSamples(b) ==
    GDALRasterIO(LevelRead(b), info, ZeroSamples(info.dataWidth * info.dataHeight),
                 info.dataWidth, info.dataHeight, TRUE).buf
\* the values of the attribute-table column of a usage
ColourColumn(usage) ==
    With(Deref(GDALGetDefaultRAT(GDALGetRasterBand(gdalfile.ds, TheStretch.bands[1]))).cols,
         LAMBDA cols : Deref(LastColumn(cols, usage, Len(cols))))

\* C18: in a colour-table render whose read succeeded, the three channels
\* of every pixel are the Red, Green and Blue column values of the row
\* that the pixel's band value indexes.
C18_ColourTableLookup ==
    (/\ Rendered /\ io.result = "image"
     /\ TheStretch.mode = VIEWER_MODE_COLORTABLE
     /\ io.reads = <<"read">>)
    => With(WindowSamples(TheStretch.bands[1]),
            LAMBDA buf :
              \A p \in DOMAIN buf :
                With(TruncZ(buf[p]),
                     LAMBDA v :
                        /\ Deref(im).pixels[IMG_DEPTH * p] = ByteOfInt(ColourColumn("Red")[v + 1])
                        /\ Deref(im).pixels[IMG_DEPTH * p + 1] = ByteOfInt(ColourColumn("Green")[v + 1])
                        /\ Deref(im).pixels[IMG_DEPTH * p + 2] = ByteOfInt(ColourColumn("Blue")[v + 1])))

\* band b of the window, stretched on its own: the bytes it gives
StretchedAlone(b) ==
    With(do_stretch(WindowSamples(b), GDALGetRasterBand(gdalfile.ds, b), TheStretch, heap),
         LAMBDA st : Filled([p \in DOMAIN st.buf |-> ByteOfSample(st.buf[p], build)]))

\* C19: in an RGB render whose three reads succeeded, channel c of pixel i
\* is the stretched sample i of band bands[c], each band stretched on its
\* own.
C19_RGBInterleavesBands ==
    (/\ Rendered /\ io.result = "image"
     /\ TheStretch.mode = VIEWER_MODE_RGB
     /\ io.reads = <<"read", "read", "read">>)
    => \A c \in 0..(IMG_DEPTH - 1) :
          With(StretchedAlone(TheStretch.bands[c + 1]),
               LAMBDA plane :
                  \A p \in DOMAIN plane :
                      Deref(im).pixels[IMG_DEPTH * p + c] = plane[p])

\* C20: when the read of a band's window fails, the render returns no
\* image and leaves an error message.
C20_FailedReadAborts ==
    (Rendered /\ \E k \in DOMAIN io.reads : io.reads[k] = "failed")
    => /\ io.result = "failed"
       /\ im = NULL
       /\ szGDALMessages # ""

(***************************************************************************)
(* Claims C21..C30.                                                        *)
(***************************************************************************)
\* the channels whose band a display mode reads: bands[0] for colour
\* table and greyscale, bands[0..2] for RGB
ChannelsOf(mode) == IF mode = VIEWER_MODE_RGB THEN 1..3 ELSE 1..1

\* C21: whenever the matcher selects a rule for a dataset, every band the
\* rule's display mode uses is at most the dataset's band count.
C21_SelectedBandsExist ==
    (MatcherReturned /\ io.rule # 0)
    => \A c \in ChannelsOf(Deref(gdalfile.stretch).mode) :
          Deref(gdalfile.stretch).bands[c] <= Len(disk.bands)

OpenReturned == pc = "returned" /\ io.fn = "gdal_open_file"
NoRuleMessage == "Could not find stretch to use for %s"

IdentityLinear ==
    /\ StretchReturned
    /\ TheStretch.stretchmode = VIEWER_STRETCHMODE_LINEAR
    /\ HasRange
    /\ Deref(TheBand.min) = R(0) /\ Deref(TheBand.max) = R(255)

RuleString24 ==
    <<"equal", ",", "1", ",", "1", ",", "colortable", ",", "none", ",", ",", "1">>

\* C24: parsing "equal,1,1,colortable,none,,1" succeeds and gives
\* comparator equal, value 1, ctband 1, mode colour table, stretch none,
\* bands [1, 0, 0] and stretch parameters 0, whatever the struct held.
C24_ParsesPositionally ==
    (io.fn = "stretch_from_string" /\ io.rule > 0 /\ disk.rules[io.rule] = RuleString24)
    => /\ io.ret.ok
       /\ io.ret.stretch =
            [comp |-> VIEWER_COMP_EQ, value |-> 1, ctband |-> 1,
             mode |-> VIEWER_MODE_COLORTABLE, stretchmode |-> VIEWER_STRETCHMODE_NONE,
             stretchparam |-> <<R(0), R(0)>>, bands |-> <<1, 0, 0>>]

\* the bins read by the two scans of the histogram stretch
LowerScanReads ==
    ScanLowerReads(TheHisto, TheTable.rows, 0, 0,
                   RMul(R(SumHisto(TheHisto, TheTable.rows)),
                        TheStretch.stretchparam[1]))
UpperScanReads ==
    ScanUpperReads(TheHisto, TheTable.rows, TheTable.rows, 0,
                   RMul(R(SumHisto(TheHisto, TheTable.rows)),
                        TheStretch.stretchparam[2]), heap)

\* C25: in a histogram stretch the scan from the bottom and the scan from
\* the top read only histogram bins with index in 0 .. nbins - 1.
C25_ScansStayInBins ==
    HistStretched =>
        /\ LowerScanReads \subseteq 0..(TheTable.rows - 1)
        /\ UpperScanReads \subseteq 0..(TheTable.rows - 1)
\* the scan from the bottom, taken alone, stays inside the histogram
C25_LowerScanInBins ==
    HistStretched => LowerScanReads \subseteq 0..(TheTable.rows - 1)

(***************************************************************************)
(* Claims about the session, under Spec.                                   *)
(***************************************************************************)

\* C26: while im = NULL no step reads im->dither: the process does not die
\* on the keys 'd' / 'D' or in the redraw of the dithering status.
C26_NoDitherWithoutImage ==
    [][~(im = NULL /\ pc \in {"top", "events", "draw"} /\ pc' = "crashed")]_vars
\* the keys alone: with no image loaded a key 'd' or 'D' ends the process
C26_KeyWithoutImage ==
    [][~(im = NULL /\ pc \in {"top", "events"} /\ pc' = "crashed")]_vars
\* the redraw alone
C26_RedrawWithoutImage ==
    [][~(im = NULL /\ pc = "draw" /\ pc' = "crashed")]_vars

(***************************************************************************)
(* Claims about the views that keys reach, under SpecZoom.                 *)
(***************************************************************************)
\* C27: for every view reached from the full extent by zoom-in, zoom-out
\* and pan keys the window mapper's unclipped source span is at least one
\* pixel in each direction: origWidthIn >= 1 and origHeightIn >= 1.
C27_SpanAtLeastOnePixel ==
    Mapped => info.origWidthIn >= 1 /\ info.origHeightIn >= 1

\* the gamma index of the dither of the image on display
DitherGamma == Deref(Deref(im).dither).gamma

\* C28: whenever main draws an image, the gamma of the status line,
\* GAMMA(g), is the gamma set on the dither of that image; a re-render
\* after a pan or zoom keeps the gamma the user chose.
C28_StatusGammaIsDitherGamma ==
    (pc = "draw" /\ im # NULL) => DitherGamma = g

(***************************************************************************)
(* Claims about --geolink, under SpecGeolink.                              *)
(***************************************************************************)
\* this viewer polls the file, and the file holds a record
PollsRecord ==
    /\ pc = "top" /\ ~update /\ pc' = "reload"
    /\ geolink.exists /\ geolink.text # <<>>
TheRecord == geolink.text[1]
RecordExtent ==
    [dCentreX |-> TheRecord.dX, dCentreY |-> TheRecord.dY,
     dMetersPerCell |-> TheRecord.dMetersPerCell]

\* C29: when the file holds a record of another process whose extent
\* differs from the display extent in centre X, centre Y or metres per
\* cell, an idle poll takes that extent over and asks for a re-render; a
\* record with this viewer's own pid is never taken over.
C29_AdoptsForeignExtent ==
    [][PollsRecord =>
          /\ (TheRecord.pid # getpid /\ RecordExtent # dispExtent)
                => (dispExtent' = RecordExtent /\ rezoom')
          /\ TheRecord.pid = getpid => dispExtent' = dispExtent]_vars
\* the second half alone: a record with the viewer's own pid changes nothing
C29_OwnRecordIgnored ==
    [][(PollsRecord /\ TheRecord.pid = getpid) => dispExtent' = dispExtent]_vars

\* the row indices (int)pBuffer[i] of a colour-table render: the samples of
\* the window after the stretch
LookupIndices ==
    With(do_stretch(WindowSamples(TheStretch.bands[1]),
                    GDALGetRasterBand(gdalfile.ds, TheStretch.bands[1]),
                    TheStretch, heap),
         LAMBDA st : {IndexOfSample(st.buf[p], build) : p \in DOMAIN st.buf})
TableRows ==
    Deref(GDALGetDefaultRAT(GDALGetRasterBand(gdalfile.ds, TheStretch.bands[1]))).rows

\* C30: in a colour-table render every index (int)value with which the
\* Red, Green and Blue arrays are read satisfies 0 <= index < rowCount, for
\* the samples read and the blank margin alike.
C30_LookupInsideTable ==
    (/\ Rendered /\ io.result = "image"
     /\ TheStretch.mode = VIEWER_MODE_COLORTABLE
     /\ io.reads = <<"read">>)
    => \A idx \in LookupIndices : 0 <= idx /\ idx < TableRows
\* the same for the renders that look the raw band values up (no stretch)
C30_RawLookupInsideTable ==
    (/\ Rendered /\ io.result = "image"
     /\ TheStretch.mode = VIEWER_MODE_COLORTABLE
     /\ TheStretch.stretchmode = VIEWER_STRETCHMODE_NONE
     /\ io.reads = <<"read">>)
    => \A idx \in LookupIndices : 0 <= idx /\ idx < TableRows

=============================================================================
